---- MODULE Spec2Model ----
(***************************************************************************)
(* A model of the terrain generator of digbuild (src/src/world_generator.cc)*)
(*                                                                         *)
(* Scalars (C++ float) are fixed-point integers:                           *)
(*   - heights and patch values are counted in quarters of a block (Q),    *)
(*   - the band formulas are evaluated in sixteenths of a block (S),       *)
(*   - densities are counted in thousandths (D).                           *)
(* Vectors are tuples, <<x, z>> or <<x, y, z>>.  A 64-bit seed is a tuple   *)
(* of four 16-bit limbs, most significant first.                           *)
(***************************************************************************)
EXTENDS Integers, Sequences, FiniteSets, TLC

VARIABLES
    world_seed_,      \* WorldGenerator::world_seed_
    pc,               \* position of the generator in generate_region
    position,         \* generate_region: the region position argument
    region_features,  \* generate_region: the RegionFeatures of the region
    chunks,           \* generate_region: the chunk list being built
    col,              \* generate_region: the loop indices <<x, z>>
    column_position,  \* generate_region: position of the current chunk column
    column_chunks,    \* generate_region: chunks of the current chunk column
    heights,          \* generate_region: the ChunkHeightmap of the column
    xz,               \* generate_chunk_column: the loop indices <<x, z>>
    total_height,     \* generate_chunk_column: total_height of column xz (Q)
    i,                \* generate_chunk_column: index of the next band pass
    bottom,           \* generate_chunk_column: bottom of the next band pass
    tops,             \* generate_chunk_column: the value of top of each pass done
    written,          \* generate_chunk_column: what the last band pass wrote
    tree_generator,   \* populate_trees: the state of the random engine
    tree,             \* populate_trees: the last tree attempt
    before_trees,     \* the chunks of the column when populate_trees was called
    returned,         \* the chunk list first returned for each seed and position
    probe,            \* the input of a patch sampling
    sampled,          \* the values a patch sampling returned
    run_,             \* GameApplication::run_
    gui_focused_,     \* GameApplication::gui_focused_
    gui_stashed,      \* gui_: whether the Gui is stashed
    cursor,           \* SDL: the state SDL_ShowCursor( SDL_QUERY ) returns
    grab,             \* SDL: the state SDL_WM_GrabInput( SDL_GRAB_QUERY ) returns
    player_,          \* GameApplication::player_: the requests of the player
    window_,          \* window_: <<screen_width_, screen_height_>>
    first_event,      \* handle_mouse_motion_event: static bool first_event
    event,            \* the event handle_event was last called with
    calls,            \* the calls handle_event made for that event, in order
    main_pc,          \* position of the main thread in main_loop
    updated_chunks_,  \* GameApplication::updated_chunks_
    chunk_lock,       \* the thread holding world_.get_chunk_lock()
    chunk_updater_,   \* GameApplication::chunk_updater_: the thread pool
    external_faces,   \* world_: the external faces of each chunk, by position
    noted,            \* handle_chunk_changes: the chunks its loop has noted
    chunk_renderers_, \* Renderer::chunk_renderers_
    last_note,        \* the external faces at the last note of each position
    scene,            \* the input of a rendering
    drawn             \* the draw calls a rendering made, in order

\* The state of the world generator.
generator_vars ==
    <<world_seed_, pc, position, region_features, chunks, col,
      column_position, column_chunks, heights, xz, total_height, i,
      bottom, tops, written, tree_generator, tree, before_trees,
      returned, probe, sampled>>

\* The state of the game application, of its window and of its renderer.
application_vars ==
    <<run_, gui_focused_, gui_stashed, cursor, grab, player_, window_,
      first_event, event, calls, main_pc, updated_chunks_, chunk_lock,
      chunk_updater_, external_faces, noted, chunk_renderers_, last_note,
      scene, drawn>>

vars == <<generator_vars, application_vars>>

-----------------------------------------------------------------------------
(* Fixed-point scales *)

Q == 4
S == 16
D == 1000

Abs(v) == IF v < 0 THEN -v ELSE v
Max(a, b) == IF a >= b THEN a ELSE b

\* C++ integer division and remainder truncate toward zero.
CDiv(a, b) == IF a >= 0 THEN a \div b ELSE -((-a) \div b)
CMod(a, b) == a - b * CDiv(a, b)

\* roundf: to the nearest integer, halves away from zero; n counts 1/d.
roundf(n, d) == IF n >= 0 THEN (2 * n + d) \div (2 * d)
                          ELSE -((2 * (-n) + d) \div (2 * d))

-----------------------------------------------------------------------------
(* Block materials and chunks *)

BLOCK_MATERIAL_AIR == "air"
BLOCK_MATERIAL_MAGMA == "magma"
BLOCK_MATERIAL_BEDROCK == "bedrock"
BLOCK_MATERIAL_STONE == "stone"
BLOCK_MATERIAL_CLAY == "clay"
BLOCK_MATERIAL_DIRT == "dirt"
BLOCK_MATERIAL_GRASS == "grass"
BLOCK_MATERIAL_TREE_TRUNK == "trunk"
BLOCK_MATERIAL_TREE_LEAF == "leaf"

SIZE_X == 16
SIZE_Y == 16
SIZE_Z == 16

REGION_SIZE == 2 * SIZE_X
CHUNKS_PER_REGION_EDGE == <<REGION_SIZE \div SIZE_X, REGION_SIZE \div SIZE_Z>>

BICUBIC_OCTAVE_EDGE == REGION_SIZE \div 2
TRILINEAR_BOX_HEIGHT == 256
TRILINEAR_BOX_SIZE == <<REGION_SIZE, TRILINEAR_BOX_HEIGHT, REGION_SIZE>>
TRILINEAR_BOX_RESOLUTION == 32

AirColumn == [y \in 1..SIZE_Y |-> BLOCK_MATERIAL_AIR]

\* Chunk::Chunk: a block buffer at an origin, every block air.
NewChunk(origin) ==
    [position |-> origin,
     blocks |-> [x \in 1..SIZE_X |-> [z \in 1..SIZE_Z |-> AirColumn]]]

\* A chunk appended as soon as the last allocated chunk is addressed.
get_block_chunks_ahead(cs, cp, height) ==
    IF (height \div SIZE_Y) + 1 >= Len(cs)
    THEN Append(cs, NewChunk(<<cp[1], height, cp[2]>>))
    ELSE cs

\* The chunk list after get_block( chunks, column_position, x, z, height ):
\* one chunk is appended when the chunk index is not yet allocated.
get_block_chunks(cs, cp, height) ==
    IF height \div SIZE_Y >= Len(cs)
    THEN Append(cs, NewChunk(<<cp[1], height, cp[2]>>))
    ELSE cs

\* Whether the block get_block returns lies in the list after the append.
get_block_valid(cs, cp, height) ==
    height \div SIZE_Y < Len(get_block_chunks(cs, cp, height))

\* The material of the block get_block returns (the list already extended).
get_material(cs, x, z, height) ==
    cs[(height \div SIZE_Y) + 1].blocks[x + 1][z + 1][(height % SIZE_Y) + 1]

\* get_block( ... ).set_material( m )
set_block(cs, cp, x, z, height, m) ==
    LET cs1 == get_block_chunks(cs, cp, height)
    IN  [cs1 EXCEPT ![(height \div SIZE_Y) + 1].blocks[x + 1][z + 1][(height % SIZE_Y) + 1] = m]

\* The material at a height of a column, air where no chunk is allocated.
MaterialAt(cs, x, z, height) ==
    IF height >= 0 /\ height \div SIZE_Y < Len(cs)
    THEN get_material(cs, x, z, height)
    ELSE BLOCK_MATERIAL_AIR

-----------------------------------------------------------------------------
(* Seeds and the seeded random stream (random.h) *)

RandMod == 1048576

RECURSIVE XorBits(_, _, _)
XorBits(a, b, n) ==
    IF n = 0 THEN 0
    ELSE (((a % 2) + (b % 2)) % 2) + 2 * XorBits(a \div 2, b \div 2, n - 1)

\* a ^ b on 64-bit values
Xor64(a, b) == <<XorBits(a[1], b[1], 16), XorBits(a[2], b[2], 16),
                 XorBits(a[3], b[3], 16), XorBits(a[4], b[4], 16)>>

\* The coordinate packed to a single integer.
PackCoordinates(p) ==
    IF Len(p) = 2 THEN ((p[1] % 1024) * 1024) + (p[2] % 1024)
    ELSE (((p[1] % 1024) * 1024) + (p[3] % 1024) + 7919 * (p[2] % 1024)) % RandMod

\* get_seed_for_coordinates: the world seed mixed with the coordinate.
get_seed_for_coordinates(seed, p) ==
    LET folded == (seed[1] * 31 + seed[2] * 17 + seed[3] * 7 + seed[4]) % RandMod
        mixed == (folded * 251 + PackCoordinates(p) * 509 + 12345) % RandMod
    IN  (mixed * 3 + 1) % RandMod

\* One step of the linear congruential generator.
NextRandom(s) == (s * 1103 + 12345) % RandMod

\* The k-th draw of a stream, k >= 1.
RECURSIVE Draw(_, _)
Draw(s, k) == IF k <= 1 THEN NextRandom(s) ELSE NextRandom(Draw(s, k - 1))

\* A draw mapped uniformly to the integers lo..hi.
Uniform(r, lo, hi) == lo + ((r \div 64) % (hi - lo + 1))

-----------------------------------------------------------------------------
(* BicubicPatch (bicubic_patch.h): four corners, each with a height, its   *)
(* two slopes and its twist, sampled from the corner's feature ranges.      *)

\* BicubicPatchCornerFeatures( height, dx, dz, dxz ): four ranges <<lo, hi>>.
BicubicPatchCornerFeatures(height, dx, dz, dxz) == <<height, dx, dz, dxz>>

\* BicubicPatchFeatures: one corner feature set per corner, in the order
\* low-X/low-Z, high-X/low-Z, high-X/high-Z, low-X/high-Z.
BicubicPatchFeatures(a, b, c, d) == <<a, b, c, d>>

CornerOffsets(size) == << <<0, 0>>, <<size[1], 0>>, <<size[1], size[2]>>, <<0, size[2]>> >>

\* The values of one corner: the k-th range is sampled by the k-th draw of
\* the stream seeded for the corner's absolute position.
SampleCorner(seed, at, features) ==
    LET g == get_seed_for_coordinates(seed, at)
        v(k) == Uniform(Draw(g, k), features[k][1] * Q, features[k][2] * Q)
    IN  <<v(1), v(2), v(3), v(4)>>

\* BicubicPatch::BicubicPatch( seed, position, size, features )
BicubicPatch(seed, at, size, features) ==
    LET corner(c) == SampleCorner(seed, <<at[1] + CornerOffsets(size)[c][1],
                                          at[2] + CornerOffsets(size)[c][2]>>, features[c])
    IN  [corners |-> <<corner(1), corner(2), corner(3), corner(4)>>]

\* A blend whose last basis function does not vanish at t = 1.
HermiteLoose(n, d, p0, m0, p1, m1) ==
    LET h00 == 2 * n * n * n - 3 * n * n * d + d * d * d
        h10 == n * n * n - 2 * n * n * d + n * d * d
        h01 == 3 * n * n * d - 2 * n * n * n
        h11 == n * n * n - n * d * d + n * n * d
    IN  (h00 * p0 + h10 * m0 + h01 * p1 + h11 * m1) \div (d * d * d)

\* Cubic Hermite blend at t = n / d of the values p0, p1 and slopes m0, m1.
Hermite(n, d, p0, m0, p1, m1) ==
    LET h00 == 2 * n * n * n - 3 * n * n * d + d * d * d
        h10 == n * n * n - 2 * n * n * d + n * d * d
        h01 == 3 * n * n * d - 2 * n * n * n
        h11 == n * n * n - n * n * d
    IN  (h00 * p0 + h10 * m0 + h01 * p1 + h11 * m1) \div (d * d * d)

\* BicubicPatch::interpolate at the normalized position <<n[1] / d, n[2] / d>>.
interpolate(patch, n, d) ==
    LET c == patch.corners
        f0 == Hermite(n[1], d, c[1][1], c[1][2], c[2][1], c[2][2])
        g0 == Hermite(n[1], d, c[1][3], c[1][4], c[2][3], c[2][4])
        f1 == Hermite(n[1], d, c[4][1], c[4][2], c[3][1], c[3][2])
        g1 == Hermite(n[1], d, c[4][3], c[4][4], c[3][3], c[3][4])
    IN  Hermite(n[2], d, f0, g0, f1, g1)

-----------------------------------------------------------------------------
(* TrilinearBox (trilinear_box.h): densities on a lattice of the given     *)
(* spacing, a pure function of the seed and the absolute lattice point.    *)

\* TrilinearBox::TrilinearBox( seed, position, size, resolution )
TrilinearBox(seed, at, size, resolution) ==
    [seed |-> seed, position |-> at, size |-> size, resolution |-> resolution,
     lo |-> 0, hi |-> D]

\* The density sampled at lattice point <<a, b, c>> of the box.
LatticeValue(box, a, b, c) ==
    IF box.lo = box.hi THEN box.lo
    ELSE Uniform(Draw(get_seed_for_coordinates(box.seed,
                        <<box.position[1] + a * box.resolution,
                          box.position[2] + b * box.resolution,
                          box.position[3] + c * box.resolution>>), 1),
                 box.lo, box.hi)

Lerp(a, b, n, d) == a + (((b - a) * n) \div d)

\* The densities of the lattice levels 0..levels at the horizontal offset
\* <<ox, oz>> (in blocks) of the box: interpolated along x, then along z.
BoxProfile(box, ox, oz, levels) ==
    LET r == box.resolution
        a == ox \div r
        c == oz \div r
    IN  <<>> \o [l \in 1..(levels + 1) |->
            Lerp(Lerp(LatticeValue(box, a, l - 1, c), LatticeValue(box, a + 1, l - 1, c), ox % r, r),
                 Lerp(LatticeValue(box, a, l - 1, c + 1), LatticeValue(box, a + 1, l - 1, c + 1), ox % r, r),
                 oz % r, r)]

\* The density at the vertical offset oy of a profile: along y.
ProfileDensity(box, profile, oy) ==
    LET r == box.resolution
        b == oy \div r
    IN  Lerp(profile[b + 1], profile[b + 2], oy % r, r)

\* TrilinearBox::interpolate at the normalized position n[k] / d[k].
box_interpolate(box, n, d) ==
    LET o == [k \in 1..3 |-> (n[k] * box.size[k]) \div d[k]]
    IN  ProfileDensity(box, BoxProfile(box, o[1], o[3], (o[2] \div box.resolution) + 1), o[2])

-----------------------------------------------------------------------------
(* RegionFeatures *)

\* 0xfea873529eaf and 0x313535f3235 as 16-bit limbs
OCTAVE_SALT == <<0, 65192, 29522, 40623>>
BOX_SALT == <<0, 787, 21343, 12853>>

\* generate_region: the corner feature ranges, in blocks.
fundamental_corner_features ==
    BicubicPatchCornerFeatures(<<0, 128>>, <<-64, 64>>, <<-64, 64>>, <<-64, 64>>)

fundamental_features ==
    BicubicPatchFeatures(fundamental_corner_features, fundamental_corner_features,
                         fundamental_corner_features, fundamental_corner_features)

octave_corner_features ==
    BicubicPatchCornerFeatures(<<-32, 32>>, <<-64, 64>>, <<-64, 64>>, <<-64, 64>>)

octave_features ==
    BicubicPatchFeatures(octave_corner_features, octave_corner_features,
                         octave_corner_features, octave_corner_features)

\* Both boxes given the world seed as it is.
box_seed_unsalted(world_seed, b) == world_seed

\* The seeds RegionFeatures gives to its fields.
fundamental_seed(world_seed) == world_seed
octave_seed(world_seed) == Xor64(world_seed, OCTAVE_SALT)
box_seed(world_seed, b) == IF b = 0 THEN world_seed ELSE Xor64(world_seed, BOX_SALT)

\* A patch of half the stride of the regions.
fundamental_size_half == <<REGION_SIZE \div 2, REGION_SIZE \div 2>>

\* The size of the fundamental patch.
fundamental_size == <<REGION_SIZE, REGION_SIZE>>

\* RegionFeatures::RegionFeatures
RegionFeatures(world_seed, at, ffeatures, ofeatures) ==
    LET octave_size == <<BICUBIC_OCTAVE_EDGE, BICUBIC_OCTAVE_EDGE>>
        oseed == octave_seed(world_seed)
        octave(a, b) == BicubicPatch(oseed, <<at[1] + a * BICUBIC_OCTAVE_EDGE,
                                              at[2] + b * BICUBIC_OCTAVE_EDGE>>,
                                     octave_size, ofeatures)
        box(b) == TrilinearBox(box_seed(world_seed, b), <<at[1], 0, at[2]>>,
                               TRILINEAR_BOX_SIZE, TRILINEAR_BOX_RESOLUTION)
    IN  [fundamental_patch_ |->
            BicubicPatch(fundamental_seed(world_seed), at, fundamental_size, ffeatures),
         octave_patches_ |-> << <<octave(0, 0), octave(0, 1)>>, <<octave(1, 0), octave(1, 1)>> >>,
         boxes_ |-> <<box(0), box(1)>>]

get_fundamental_patch(features) == features.fundamental_patch_
get_octave_patch(features, index) == features.octave_patches_[index[1] + 1][index[2] + 1]
get_box(features, b) == features.boxes_[b + 1]

-----------------------------------------------------------------------------
(* WorldGenerator::generate_chunk_column *)

\* The position of the column in the world, the region position not subtracted.
relative_position_absolute(rp, cp, x, z) == <<cp[1] + x, cp[2] + z>>

\* relative_position of the column <<x, z>> of the chunk column
relative_position(rp, cp, x, z) == <<cp[1] - rp[1] + x, cp[2] - rp[2] + z>>

\* The cell index with its components exchanged.
octave_index_swapped(rel) ==
    <<CDiv(rel[2], BICUBIC_OCTAVE_EDGE), CDiv(rel[1], BICUBIC_OCTAVE_EDGE)>>

\* The numerators of the normalized position given to the fundamental patch
\* (over REGION_SIZE) and to the octave patch (over BICUBIC_OCTAVE_EDGE).
fundamental_position(rel) == rel
octave_index(rel) == <<CDiv(rel[1], BICUBIC_OCTAVE_EDGE), CDiv(rel[2], BICUBIC_OCTAVE_EDGE)>>
octave_position(rel) == <<CMod(rel[1], BICUBIC_OCTAVE_EDGE), CMod(rel[2], BICUBIC_OCTAVE_EDGE)>>

BASE_HEIGHT == 32

\* total_height of a column, in Q
TotalHeight(features, rel) ==
    LET fundamental_height ==
            interpolate(get_fundamental_patch(features), fundamental_position(rel), REGION_SIZE)
        octave_height ==
            Abs(interpolate(get_octave_patch(features, octave_index(rel)),
                            octave_position(rel), BICUBIC_OCTAVE_EDGE))
    IN  BASE_HEIGHT * Q + fundamental_height - octave_height

MAGMA_TOP == 1
BEDROCK_BASE == 20
STONE_BASE == 52
CLAY_BASE == 58
DIRT_BASE == 62
GRASS_BASE == 63

\* layers[]: material and height (in S) of each band; th is total_height in Q.
\* The bedrock band rises by 0.25 per block of total_height, the others by 1.
layers(th) ==
    << <<BLOCK_MATERIAL_MAGMA,   MAGMA_TOP * S>>,
       <<BLOCK_MATERIAL_BEDROCK, BEDROCK_BASE * S + th>>,
       <<BLOCK_MATERIAL_STONE,   STONE_BASE * S + th * (S \div Q)>>,
       <<BLOCK_MATERIAL_CLAY,    CLAY_BASE * S + th * (S \div Q)>>,
       <<BLOCK_MATERIAL_DIRT,    DIRT_BASE * S + th * (S \div Q)>>,
       <<BLOCK_MATERIAL_GRASS,   GRASS_BASE * S + th * (S \div Q)>> >>

num_layers == Len(layers(0))

\* The band formula raised to bottom, not to bottom + 1.
PassTopFlat(height, b) == roundf(Max(height, b * S), S)

\* The band formula alone, not raised to bottom + 1.
PassTopUnclamped(height, b) == roundf(height, S)

\* top of a pass: unsigned( roundf( max( layers[i].second, bottom + 1 ) ) )
PassTop(height, b) == roundf(Max(height, (b + 1) * S), S)

\* The first cell a pass writes.
\* A pass that starts two chunks above the bottom.
PassFirstAbove(b) == IF b = 0 THEN 0 ELSE b + 2 * SIZE_Y

PassFirst(b) == b

DENSITY_LOW == 450
DENSITY_HIGH == 550

\* One density in the window is enough.
CarvesEither(densityA, densityB) ==
    \/ densityA > DENSITY_LOW /\ densityA < DENSITY_HIGH
    \/ densityB > DENSITY_LOW /\ densityB < DENSITY_HIGH

\* Whether the two densities carve the cell.
Carves(densityA, densityB) ==
    densityA > DENSITY_LOW /\ densityA < DENSITY_HIGH
    /\ densityB > DENSITY_LOW /\ densityB < DENSITY_HIGH

\* The material a pass of the band gives a cell with these densities.
CellMaterial(material, densityA, densityB) ==
    IF material # BLOCK_MATERIAL_MAGMA
    THEN IF Carves(densityA, densityB) THEN BLOCK_MATERIAL_AIR ELSE material
    ELSE material

\* The numerators of box_position at height y, over TRILINEAR_BOX_SIZE.
box_position(rel, y) == <<rel[1], y, rel[2]>>

\* The offset in blocks, along axis k, of a normalized box position.
BoxOffset(box, pos, k) == (pos[k] * box.size[k]) \div TRILINEAR_BOX_SIZE[k]

\* The profile of box b under a column, up to the height top.
Profile(features, rel, top, b) ==
    BoxProfile(get_box(features, b),
               BoxOffset(get_box(features, b), box_position(rel, 0), 1),
               BoxOffset(get_box(features, b), box_position(rel, 0), 3),
               (top \div TRILINEAR_BOX_RESOLUTION) + 1)

Profiles(features, rel, top) ==
    <<Profile(features, rel, top, 0), Profile(features, rel, top, 1)>>

\* get_box( b ).interpolate( box_position ) at the cell y of the column.
Density(features, profiles, b, rel, y) ==
    ProfileDensity(get_box(features, b), profiles[b + 1],
                   BoxOffset(get_box(features, b), box_position(rel, y), 2))

\* The loop over y of one pass: the cells lo..hi, in ascending order.
RECURSIVE WriteRun(_, _, _, _, _, _, _, _, _, _)
WriteRun(cs, cp, x, z, rel, lo, hi, material, features, profiles) ==
    IF lo > hi THEN cs
    ELSE IF lo = hi
    THEN set_block(cs, cp, x, z, lo,
                   CellMaterial(material, Density(features, profiles, 0, rel, lo),
                                          Density(features, profiles, 1, rel, lo)))
    ELSE LET mid == (lo + hi) \div 2
             low == WriteRun(cs, cp, x, z, rel, lo, mid, material, features, profiles)
         IN  IF Len(low) > 0
             THEN WriteRun(low, cp, x, z, rel, mid + 1, hi, material, features, profiles)
             ELSE low

\* One pass of the loop over the bands: band k (1..num_layers) from bottom b.
LayerPass(cs, cp, x, z, rel, k, b, th, features, profiles) ==
    LET top == PassTop(layers(th)[k][2], b)
    IN  [chunks |-> WriteRun(cs, cp, x, z, rel, PassFirst(b), top, layers(th)[k][1], features, profiles),
         bottom |-> top]

\* An upper bound of the top of the last band of a column.
TopBound(th) == Max(roundf(GRASS_BASE * S + th * (S \div Q), S), 0) + num_layers + 1

\* The passes k..num_layers of a column.
RECURSIVE LayerPasses(_, _, _, _, _, _, _, _, _, _)
LayerPasses(cs, cp, x, z, rel, k, b, th, features, profiles) ==
    IF k > num_layers THEN [chunks |-> cs, bottom |-> b]
    ELSE LET r == LayerPass(cs, cp, x, z, rel, k, b, th, features, profiles)
         IN  IF r.bottom >= b
             THEN LayerPasses(r.chunks, cp, x, z, rel, k + 1, r.bottom, th, features, profiles)
             ELSE r

\* The body of the loops over x and z: the column <<x, z>> is layered and
\* its heightmap entry set.
LayerColumn(st, features, rp, cp, x, z) ==
    LET rel == relative_position(rp, cp, x, z)
        th == TotalHeight(features, rel)
        r == LayerPasses(st.chunks, cp, x, z, rel, 1, 0, th, features,
                         Profiles(features, rel, TopBound(th)))
    IN  [chunks |-> r.chunks,
         heights |-> [st.heights EXCEPT ![x + 1][z + 1] = r.bottom]]

\* The columns numbered lo..hi of the chunk column, x outer and z inner.
RECURSIVE LayerColumns(_, _, _, _, _, _)
LayerColumns(st, features, rp, cp, lo, hi) ==
    IF lo > hi THEN st
    ELSE IF lo = hi
    THEN LayerColumn(st, features, rp, cp, lo \div SIZE_Z, lo % SIZE_Z)
    ELSE LET mid == (lo + hi) \div 2
             low == LayerColumns(st, features, rp, cp, lo, mid)
         IN  IF Len(low.chunks) > 0
             THEN LayerColumns(low, features, rp, cp, mid + 1, hi)
             ELSE low

\* WorldGenerator::generate_chunk_column: the chunks and the heightmap after it.
generate_chunk_column(cs, features, rp, cp, hs) ==
    LayerColumns([chunks |-> cs, heights |-> hs], features, rp, cp, 0, SIZE_X * SIZE_Z - 1)

-----------------------------------------------------------------------------
(* WorldGenerator::populate_trees *)

MIN_TREE_RADIUS == 3
MAX_TREE_RADIUS == 5
MIN_TREE_HEIGHT == 8
MAX_TREE_HEIGHT == 24
TREES_PER_CHUNK == 1

\* An engine that is not seeded again: it goes on from where the last call left it.
tree_generator_stale(world_seed, cp) == tree_generator

\* The seed of tree_generator.
tree_generator_seed(world_seed, cp) == get_seed_for_coordinates(world_seed, cp)

\* An attempt whose position is drawn from the whole chunk column.
TreeAttemptNoMargin(g) ==
    [x |-> Uniform(Draw(g, 1), 0, SIZE_X - 1),
     z |-> Uniform(Draw(g, 2), 0, SIZE_Z - 1),
     height |-> Uniform(Draw(g, 3), MIN_TREE_HEIGHT, MAX_TREE_HEIGHT),
     radius |-> Uniform(Draw(g, 4), MIN_TREE_RADIUS, MAX_TREE_RADIUS)]

\* The attempt drawn from the engine state g: x, z, height and radius are the
\* next four draws, in this order.
TreeAttempt(g) ==
    [x |-> Uniform(Draw(g, 1), MAX_TREE_RADIUS, SIZE_X - MAX_TREE_RADIUS - 1),
     z |-> Uniform(Draw(g, 2), MAX_TREE_RADIUS, SIZE_Z - MAX_TREE_RADIUS - 1),
     height |-> Uniform(Draw(g, 3), MIN_TREE_HEIGHT, MAX_TREE_HEIGHT),
     radius |-> Uniform(Draw(g, 4), MIN_TREE_RADIUS, MAX_TREE_RADIUS)]

\* A leaf written whatever the block holds.
LeafReplacesAny(material) == TRUE

\* Whether a leaf is written over a block of this material.
LeafReplaces(material) == material = BLOCK_MATERIAL_AIR

\* The body of the loops over u and v: the cell <<x + u, z + v>> at height h.
PlaceLeaf(cs, cp, x, z, u, v, h) ==
    IF u # 0 \/ v # 0
    THEN LET cs1 == get_block_chunks(cs, cp, h)
         IN  IF LeafReplaces(get_material(cs1, x + u, z + v, h))
             THEN set_block(cs1, cp, x + u, z + v, h, BLOCK_MATERIAL_TREE_LEAF)
             ELSE cs1
    ELSE cs

\* The loops over u and v of one trunk level, the cells numbered lo..hi of
\* the square of half-width w, u outer and v inner.
RECURSIVE PlaceLeaves(_, _, _, _, _, _, _, _)
PlaceLeaves(cs, cp, x, z, w, h, lo, hi) ==
    IF lo > hi THEN cs
    ELSE IF lo = hi
    THEN PlaceLeaf(cs, cp, x, z, (lo \div (2 * w + 1)) - w, (lo % (2 * w + 1)) - w, h)
    ELSE LET mid == (lo + hi) \div 2
             low == PlaceLeaves(cs, cp, x, z, w, h, lo, mid)
         IN  IF Len(low) > 0
             THEN PlaceLeaves(low, cp, x, z, w, h, mid + 1, hi)
             ELSE low

\* The canopy started one level higher.
LeafHeightLate(y, height, radius) == y - (height - radius)

\* leaf_height of the trunk level y
LeafHeight(y, height, radius) == y - (height - radius - 1)

\* The body of the loop over y: the trunk block, then the leaves around it.
TreeLevel(cs, cp, x, z, b, y, height, radius) ==
    LET trunk == set_block(cs, cp, x, z, b + y, BLOCK_MATERIAL_TREE_TRUNK)
        leaf_height == LeafHeight(y, height, radius)
        w == radius - leaf_height
    IN  IF leaf_height >= 0 /\ w >= 0
        THEN PlaceLeaves(trunk, cp, x, z, w, b + y, 0, (2 * w + 1) * (2 * w + 1) - 1)
        ELSE trunk

\* The loop over y, the levels y..height - 1.
RECURSIVE TreeLevels(_, _, _, _, _, _, _, _)
TreeLevels(cs, cp, x, z, b, y, height, radius) ==
    IF y >= height THEN cs
    ELSE LET level == TreeLevel(cs, cp, x, z, b, y, height, radius)
         IN  IF Len(level) > 0
             THEN TreeLevels(level, cp, x, z, b, y + 1, height, radius)
             ELSE level

\* A tree rooted on any block.
TreeRootsAny(material) == TRUE

\* Whether a tree is rooted on a block of this material.
TreeRoots(material) == material = BLOCK_MATERIAL_GRASS

\* A trunk that starts at the surface block itself.
PlaceTreeFromRoot(cs, cp, hs, t) ==
    LET b == hs[t.x + 1][t.z + 1]
        cs1 == get_block_chunks(cs, cp, b)
    IN  IF TreeRoots(get_material(cs1, t.x, t.z, b))
        THEN TreeLevels(cs1, cp, t.x, t.z, b, 0, t.height, t.radius)
        ELSE cs1

\* One tree attempt t on the chunks cs with the heightmap hs.
PlaceTree(cs, cp, hs, t) ==
    LET b == hs[t.x + 1][t.z + 1]
        cs1 == get_block_chunks(cs, cp, b)
    IN  IF TreeRoots(get_material(cs1, t.x, t.z, b))
        THEN TreeLevels(cs1, cp, t.x, t.z, b, 1, t.height, t.radius)
        ELSE cs1

\* The engine state after n attempts.
RECURSIVE EngineAfter(_, _)
EngineAfter(g, n) == IF n = 0 THEN g ELSE EngineAfter(Draw(g, 4), n - 1)

\* The loop over the attempts n..TREES_PER_CHUNK - 1.
RECURSIVE PlaceTrees(_, _, _, _, _)
PlaceTrees(cs, cp, hs, g, n) ==
    IF n >= TREES_PER_CHUNK THEN cs
    ELSE LET placed == PlaceTree(cs, cp, hs, TreeAttempt(g))
         IN  IF Len(placed) > 0
             THEN PlaceTrees(placed, cp, hs, Draw(g, 4), n + 1)
             ELSE placed

\* WorldGenerator::populate_trees: the chunks after it.
populate_trees(cs, cp, hs, world_seed) ==
    PlaceTrees(cs, cp, hs, tree_generator_seed(world_seed, cp), 0)

-----------------------------------------------------------------------------
(* WorldGenerator::generate_region, one action per call it makes *)

\* 0xeaafa35aaa8eafdf
WorldSeeds == { <<60079, 41818, 43662, 45023>> }

RegionPositions == { <<0, 0>>, <<-REGION_SIZE, 0>> }

\* ChunkHeightmap heights; is not initialized: no entry holds a height.
UNINITIALIZED == -1
UninitializedHeights == [x \in 1..SIZE_X |-> [z \in 1..SIZE_Z |-> UNINITIALIZED]]

NoWritten == [lo |-> 0, hi |-> -1, material |-> BLOCK_MATERIAL_AIR]
NoTree == [x |-> 0, z |-> 0, height |-> 0, radius |-> 0]
NoProbe == [at |-> <<0, 0>>, axis |-> 0, n |-> 0]

\* Every chunk column placed at the origin of the region.
ColumnPositionShared(rp, c) == rp

\* column_position of the chunk column c of the region at rp
ColumnPosition(rp, c) == <<rp[1] + c[1] * SIZE_X, rp[2] + c[2] * SIZE_Z>>

\* A loop over x alone: the inner loop is left after its first pass.
NextColumnSkip(c) == <<c[1] + 1, 0>>

\* The loop indices after the column c; <<CHUNKS_PER_REGION_EDGE[0], 0>> ends the loops.
NextColumn(c) ==
    IF c[2] + 1 < CHUNKS_PER_REGION_EDGE[2] THEN <<c[1], c[2] + 1>> ELSE <<c[1] + 1, 0>>

\* The requests a Player holds.
Requests ==
    {"fast_move", "move_forward", "move_backward", "strafe_left", "strafe_right",
     "jump", "crouch", "primary_fire", "secondary_fire"}

NoRequests == [r \in Requests |-> FALSE]
NoEvent == <<"SDL_NOEVENT", "">>
NoScene == <<>>

\* The sizes a window is given.
WindowSizes == {<<640, 480>>, <<800, 600>>}

\* The thread pool of one worker, nothing scheduled; the worker holds no lock.
IdlePool == [pending |-> 0, active |-> FALSE]

\* The game application is not part of the run: it stays as constructed,
\* over a world without chunks.
NoApplication ==
    /\ run_ = FALSE
    /\ gui_focused_ = FALSE
    /\ gui_stashed = TRUE
    /\ cursor = "SDL_DISABLE"
    /\ grab = "SDL_GRAB_ON"
    /\ player_ = NoRequests
    /\ window_ = <<800, 600>>
    /\ first_event = TRUE
    /\ event = NoEvent
    /\ calls = <<>>
    /\ main_pc = "constructed"
    /\ updated_chunks_ = {}
    /\ chunk_lock = "free"
    /\ chunk_updater_ = IdlePool
    /\ external_faces = <<>>
    /\ noted = <<>>
    /\ chunk_renderers_ = <<>>
    /\ last_note = <<>>
    /\ scene = NoScene
    /\ drawn = <<>>

\* The world generator is not part of the run: no region is requested.
NoGeneration ==
    /\ world_seed_ = <<60079, 41818, 43662, 45023>>
    /\ pc = "idle"
    /\ position = <<0, 0>>
    /\ region_features = <<>>
    /\ chunks = <<>>
    /\ col = <<0, 0>>
    /\ column_position = <<0, 0>>
    /\ column_chunks = <<>>
    /\ heights = <<>>
    /\ xz = <<0, 0>>
    /\ total_height = 0
    /\ i = 1
    /\ bottom = 0
    /\ tops = <<>>
    /\ written = NoWritten
    /\ tree_generator = 0
    /\ tree = NoTree
    /\ before_trees = <<>>
    /\ returned = <<>>
    /\ probe = NoProbe
    /\ sampled = <<>>

\* WorldGenerator::WorldGenerator
Init ==
    /\ NoApplication
    /\ world_seed_ \in WorldSeeds
    /\ pc = "idle"
    /\ position = <<0, 0>>
    /\ region_features = <<>>
    /\ chunks = <<>>
    /\ col = <<0, 0>>
    /\ column_position = <<0, 0>>
    /\ column_chunks = <<>>
    /\ heights = UninitializedHeights
    /\ xz = <<0, 0>>
    /\ total_height = 0
    /\ i = 1
    /\ bottom = 0
    /\ tops = <<>>
    /\ written = NoWritten
    /\ tree_generator = 0
    /\ tree = NoTree
    /\ before_trees = <<>>
    /\ returned = <<>>
    /\ probe = NoProbe
    /\ sampled = <<>>

\* generate_region is called: the region features are built, the list is empty.
GenerateRegion(p) ==
    /\ pc = "idle"
    /\ pc' = "column"
    /\ position' = p
    /\ region_features' = RegionFeatures(world_seed_, p, fundamental_features, octave_features)
    /\ chunks' = <<>>
    /\ col' = <<0, 0>>
    /\ UNCHANGED <<world_seed_, column_position, column_chunks, heights, xz, total_height,
                   i, bottom, tops, written, tree_generator, tree, before_trees,
                   returned, probe, sampled>>
    /\ UNCHANGED application_vars

\* The loop body up to the call of generate_chunk_column.
GenerateChunkColumn ==
    /\ pc = "column"
    /\ pc' = "trees"
    /\ column_position' = ColumnPosition(position, col)
    /\ LET r == generate_chunk_column(<<>>, region_features, position,
                                      ColumnPosition(position, col), UninitializedHeights)
       IN  /\ column_chunks' = r.chunks
           /\ heights' = r.heights
    /\ UNCHANGED <<world_seed_, position, region_features, chunks, col, xz, total_height,
                   i, bottom, tops, written, tree_generator, tree, before_trees,
                   returned, probe, sampled>>
    /\ UNCHANGED application_vars

\* The call of populate_trees.
PopulateTrees ==
    /\ pc = "trees"
    /\ pc' = "insert"
    /\ LET g == tree_generator_seed(world_seed_, column_position)
       IN  /\ column_chunks' = populate_trees(column_chunks, column_position, heights, world_seed_)
           /\ tree' = TreeAttempt(EngineAfter(g, TREES_PER_CHUNK - 1))
           /\ tree_generator' = EngineAfter(g, TREES_PER_CHUNK)
    /\ before_trees' = column_chunks
    /\ UNCHANGED <<world_seed_, position, region_features, chunks, col, column_position,
                   heights, xz, total_height, i, bottom, tops, written, returned,
                   probe, sampled>>
    /\ UNCHANGED application_vars

\* chunks.insert( chunks.end(), ... ) and the step of the loops.
InsertColumn ==
    /\ pc = "insert"
    /\ chunks' = chunks \o column_chunks
    /\ col' = NextColumn(col)
    /\ pc' = IF NextColumn(col)[1] < CHUNKS_PER_REGION_EDGE[1] THEN "column" ELSE "return"
    /\ UNCHANGED <<world_seed_, position, region_features, column_position, column_chunks,
                   heights, xz, total_height, i, bottom, tops, written, tree_generator,
                   tree, before_trees, returned, probe, sampled>>
    /\ UNCHANGED application_vars

\* return chunks: the caller receives the list.
Return ==
    /\ pc = "return"
    /\ pc' = "idle"
    /\ returned' = IF <<world_seed_, position>> \in DOMAIN returned
                   THEN returned
                   ELSE returned @@ (<<world_seed_, position>> :> chunks)
    /\ UNCHANGED <<world_seed_, position, region_features, chunks, col, column_position,
                   column_chunks, heights, xz, total_height, i, bottom, tops, written,
                   tree_generator, tree, before_trees, probe, sampled>>
    /\ UNCHANGED application_vars

Next ==
    \/ \E p \in RegionPositions : GenerateRegion(p)
    \/ GenerateChunkColumn
    \/ PopulateTrees
    \/ InsertColumn
    \/ Return

Spec == Init /\ [][Next]_vars

-----------------------------------------------------------------------------
(* The layering of one column, one action per band pass.  The features are *)
(* drawn from patches of one height and boxes of one density, and from the *)
(* seeded features of a region.                                            *)

\* A patch whose four corners hold the height v (in Q) and no slope.
FlatPatch(v) == [corners |-> << <<v, 0, 0, 0>>, <<v, 0, 0, 0>>, <<v, 0, 0, 0>>, <<v, 0, 0, 0>> >>]

\* A patch rising along x from the height v0 to the height v1 (in Q).
SlopePatch(v0, v1) ==
    [corners |-> << <<v0, 0, 0, 0>>, <<v1, 0, 0, 0>>, <<v1, 0, 0, 0>>, <<v0, 0, 0, 0>> >>]

\* A box whose lattice points all hold the density d.
FlatBox(d) ==
    [seed |-> <<0, 0, 0, 0>>, position |-> <<0, 0, 0>>, size |-> TRILINEAR_BOX_SIZE,
     resolution |-> TRILINEAR_BOX_RESOLUTION, lo |-> d, hi |-> d]

FeaturesOf(fundamental, octave, boxA, boxB) ==
    [fundamental_patch_ |-> fundamental,
     octave_patches_ |-> << <<octave, octave>>, <<octave, octave>> >>,
     boxes_ |-> <<boxA, boxB>>]

\* A fundamental patch whose corner values lie at the ends of their feature
\* ranges: every corner at the greatest height, the slopes toward the centre.
SteepPatch ==
    LET h == fundamental_corner_features[1][2] * Q
        m == fundamental_corner_features[2][2] * Q
    IN  [corners |-> << <<h, m, m, m>>, <<h, -m, m, -m>>, <<h, -m, -m, m>>, <<h, m, -m, -m>> >>]

\* total_height of the drawn columns, in blocks
LayerHeights == {-1000, -72, -65, -33, -8, 0, 37, 160, 1000}

\* The densities of the two boxes of the drawn columns
LayerDensities ==
    { <<0, 0>>, <<450, 500>>, <<451, 549>>, <<500, 500>>, <<500, 550>>, <<500, 900>>, <<449, 451>> }

LayerFeatures ==
    { FeaturesOf(FlatPatch((h - BASE_HEIGHT) * Q), FlatPatch(0), FlatBox(d[1]), FlatBox(d[2])) :
        h \in LayerHeights, d \in LayerDensities }
    \cup { FeaturesOf(FlatPatch(0), FlatPatch(v), FlatBox(500), FlatBox(0)) : v \in {-129, 66} }
    \cup { FeaturesOf(SteepPatch, FlatPatch(0), FlatBox(0), FlatBox(0)) }

\* The columns drawn in a chunk column: its corners, its edges and its middle.
LayerOffsets == {0, SIZE_X \div 2, SIZE_X - 1}

ChunkColumns == (0..(CHUNKS_PER_REGION_EDGE[1] - 1)) \X (0..(CHUNKS_PER_REGION_EDGE[2] - 1))

LayerPositions == { <<0, 0>>, <<-REGION_SIZE, 0>>, <<REGION_SIZE, -REGION_SIZE>> }

\* The inputs of the layering: drawn features at the first chunk column of the
\* region at the origin, seeded features at every chunk column of a region.
LayerInputs ==
    { [features |-> f, position |-> <<0, 0>>, col |-> <<0, 0>>, xz |-> <<a, a>>] :
        f \in LayerFeatures, a \in LayerOffsets }
    \cup { [features |-> RegionFeatures(s, p, fundamental_features, octave_features),
            position |-> p, col |-> c, xz |-> o] :
        s \in WorldSeeds, p \in LayerPositions, c \in ChunkColumns,
        o \in LayerOffsets \X LayerOffsets }

InitLayer ==
    /\ NoApplication
    /\ world_seed_ \in WorldSeeds
    /\ pc = "begin"
    /\ \E inp \in LayerInputs :
        /\ position = inp.position
        /\ region_features = inp.features
        /\ col = inp.col
        /\ column_position = ColumnPosition(inp.position, inp.col)
        /\ xz = inp.xz
    /\ chunks = <<>>
    /\ column_chunks = <<>>
    /\ heights = UninitializedHeights
    /\ total_height = 0
    /\ i = 1
    /\ bottom = 0
    /\ tops = <<>>
    /\ written = NoWritten
    /\ tree_generator = 0
    /\ tree = NoTree
    /\ before_trees = <<>>
    /\ returned = <<>>
    /\ probe = NoProbe
    /\ sampled = <<>>

\* The body of the loops over x and z up to the loop over the bands.
LayerBegin ==
    /\ pc = "begin"
    /\ pc' = "layer"
    /\ total_height' = TotalHeight(region_features,
                          relative_position(position, column_position, xz[1], xz[2]))
    /\ i' = 1
    /\ bottom' = 0
    /\ UNCHANGED <<world_seed_, position, region_features, chunks, col, column_position,
                   column_chunks, heights, xz, tops, written, tree_generator, tree,
                   before_trees, returned, probe, sampled>>
    /\ UNCHANGED application_vars

\* One iteration of the loop over the bands.
LayerPassStep ==
    /\ pc = "layer"
    /\ i <= num_layers
    /\ LET rel == relative_position(position, column_position, xz[1], xz[2])
           r == LayerPass(column_chunks, column_position, xz[1], xz[2], rel, i, bottom,
                          total_height, region_features,
                          Profiles(region_features, rel, TopBound(total_height)))
       IN  /\ column_chunks' = r.chunks
           /\ bottom' = r.bottom
           /\ tops' = Append(tops, r.bottom)
           /\ written' = [lo |-> PassFirst(bottom), hi |-> r.bottom,
                          material |-> layers(total_height)[i][1]]
    /\ i' = i + 1
    /\ UNCHANGED <<world_seed_, pc, position, region_features, chunks, col, column_position,
                   heights, xz, total_height, tree_generator, tree, before_trees,
                   returned, probe, sampled>>
    /\ UNCHANGED application_vars

\* heights[x][z] = bottom, after the last band.
LayerEnd ==
    /\ pc = "layer"
    /\ i > num_layers
    /\ pc' = "layered"
    /\ heights' = [heights EXCEPT ![xz[1] + 1][xz[2] + 1] = bottom]
    /\ UNCHANGED <<world_seed_, position, region_features, chunks, col, column_position,
                   column_chunks, xz, total_height, i, bottom, tops, written,
                   tree_generator, tree, before_trees, returned, probe, sampled>>
    /\ UNCHANGED application_vars

NextLayer == LayerBegin \/ LayerPassStep \/ LayerEnd

SpecLayer == InitLayer /\ [][NextLayer]_vars

-----------------------------------------------------------------------------
(* populate_trees on one chunk column, the terrain drawn *)

TreeSeedCount == 16
TreeSeeds == { <<0, 0, 0, k>> : k \in 1..TreeSeedCount }

\* The terrains: level and solid, a slope along x, every cell carved, seeded.
TreeFeatures ==
    { FeaturesOf(FlatPatch(0), FlatPatch(0), FlatBox(0), FlatBox(0)),
      FeaturesOf(SlopePatch(0, fundamental_corner_features[1][2] * Q), FlatPatch(0),
                 FlatBox(0), FlatBox(0)),
      FeaturesOf(FlatPatch(0), FlatPatch(0), FlatBox(500), FlatBox(500)) }
    \cup { RegionFeatures(s, <<0, 0>>, fundamental_features, octave_features) : s \in WorldSeeds }

InitTrees ==
    /\ NoApplication
    /\ pc = "trees"
    /\ position = <<0, 0>>
    /\ region_features \in TreeFeatures
    /\ col = <<0, 0>>
    /\ column_position = <<0, 0>>
    /\ \E r \in {generate_chunk_column(<<>>, region_features, position, column_position,
                                        UninitializedHeights)} :
        /\ column_chunks = r.chunks
        /\ heights = r.heights
    /\ world_seed_ \in TreeSeeds
    /\ chunks = <<>>
    /\ xz = <<0, 0>>
    /\ total_height = 0
    /\ i = 1
    /\ bottom = 0
    /\ tops = <<>>
    /\ written = NoWritten
    /\ tree_generator = 0
    /\ tree = NoTree
    /\ before_trees = <<>>
    /\ returned = <<>>
    /\ probe = NoProbe
    /\ sampled = <<>>

NextTrees == PopulateTrees \/ InsertColumn

SpecTrees == InitTrees /\ [][NextTrees]_vars

-----------------------------------------------------------------------------
(* The fundamental patches of two adjacent regions, built independently and *)
(* sampled on the edge they share.                                          *)

PatchPositions == { <<0, 0>>, <<-REGION_SIZE, 0>>, <<REGION_SIZE, -REGION_SIZE>> }

InitPatch ==
    /\ NoApplication
    /\ world_seed_ \in WorldSeeds
    /\ pc = "probe"
    /\ probe \in [at : PatchPositions, axis : {1, 2}, n : 0..REGION_SIZE]
    /\ sampled = <<>>
    /\ position = <<0, 0>>
    /\ region_features = <<>>
    /\ chunks = <<>>
    /\ col = <<0, 0>>
    /\ column_position = <<0, 0>>
    /\ column_chunks = <<>>
    /\ heights = UninitializedHeights
    /\ xz = <<0, 0>>
    /\ total_height = 0
    /\ i = 1
    /\ bottom = 0
    /\ tops = <<>>
    /\ written = NoWritten
    /\ tree_generator = 0
    /\ tree = NoTree
    /\ before_trees = <<>>
    /\ returned = <<>>

\* The region next to the region at p along the axis.
Neighbour(p, axis) ==
    IF axis = 1 THEN <<p[1] + REGION_SIZE, p[2]>> ELSE <<p[1], p[2] + REGION_SIZE>>

\* The point n of the edge at normalized coordinate e / REGION_SIZE of the axis.
EdgePoint(axis, e, n) == IF axis = 1 THEN <<e, n>> ELSE <<n, e>>

\* Two RegionFeatures are built; each fundamental patch is sampled on the
\* shared edge, the first at its high edge and the second at its low edge.
SamplePatches ==
    /\ pc = "probe"
    /\ pc' = "sampled"
    /\ LET first == RegionFeatures(world_seed_, probe.at, fundamental_features, octave_features)
           second == RegionFeatures(world_seed_, Neighbour(probe.at, probe.axis),
                                    fundamental_features, octave_features)
       IN  sampled' =
             <<interpolate(get_fundamental_patch(first),
                           EdgePoint(probe.axis, REGION_SIZE, probe.n), REGION_SIZE),
               interpolate(get_fundamental_patch(second),
                           EdgePoint(probe.axis, 0, probe.n), REGION_SIZE)>>
    /\ UNCHANGED <<world_seed_, position, region_features, chunks, col, column_position,
                   column_chunks, heights, xz, total_height, i, bottom, tops, written,
                   tree_generator, tree, before_trees, returned, probe>>
    /\ UNCHANGED application_vars

NextPatch == SamplePatches

SpecPatch == InitPatch /\ [][NextPatch]_vars

-----------------------------------------------------------------------------
(* The seeds of the fields of a region and of the tree stream of a chunk   *)
(* column, for world seeds that meet the salts bit by bit.                  *)

\* The limbs met by the salts, all zeros and all ones.
SeedLimbs ==
    << {0, 60079, 65535}, {0, 787, 65192, 65535}, {0, 21343, 29522}, {0, 12853, 40623, 65535} >>

SeedSamples == SeedLimbs[1] \X SeedLimbs[2] \X SeedLimbs[3] \X SeedLimbs[4]

NoSeeds == <<>>

InitSeeds ==
    /\ NoApplication
    /\ world_seed_ \in SeedSamples
    /\ pc = "seeds"
    /\ position \in RegionPositions
    /\ col \in ChunkColumns
    /\ column_position = ColumnPosition(position, col)
    /\ sampled = NoSeeds
    /\ region_features = <<>>
    /\ chunks = <<>>
    /\ column_chunks = <<>>
    /\ heights = UninitializedHeights
    /\ xz = <<0, 0>>
    /\ total_height = 0
    /\ i = 1
    /\ bottom = 0
    /\ tops = <<>>
    /\ written = NoWritten
    /\ tree_generator = 0
    /\ tree = NoTree
    /\ before_trees = <<>>
    /\ returned = <<>>
    /\ probe = NoProbe

\* RegionFeatures is built and the tree stream of the chunk column is
\* seeded: the seed each field was given, the seed of the stream of the
\* patch corner at the column position, and the seed of the tree stream.
DeriveSeeds ==
    /\ pc = "seeds"
    /\ pc' = "seeded"
    /\ region_features' = RegionFeatures(world_seed_, position, fundamental_features, octave_features)
    /\ tree_generator' = tree_generator_seed(world_seed_, column_position)
    /\ sampled' = [fundamental |-> fundamental_seed(world_seed_),
                   octave |-> octave_seed(world_seed_),
                   boxes |-> <<box_seed(world_seed_, 0), box_seed(world_seed_, 1)>>,
                   corner |-> get_seed_for_coordinates(fundamental_seed(world_seed_),
                                                       column_position)]
    /\ UNCHANGED <<world_seed_, position, chunks, col, column_position, column_chunks,
                   heights, xz, total_height, i, bottom, tops, written, tree,
                   before_trees, returned, probe>>
    /\ UNCHANGED application_vars

NextSeeds == DeriveSeeds

SpecSeeds == InitSeeds /\ [][NextSeeds]_vars

-----------------------------------------------------------------------------
(* GameApplication: the events (src/src/game_application.cc)               *)
(*                                                                         *)
(* An SDL event is <<type, detail>>: the detail is the key of a keyboard    *)
(* event, the button of a mouse button event, the size of a resize event.  *)
(* The fields handle_event reads and writes are gathered in a record, and   *)
(* every call it makes on the Gui, the Player, the window or itself is      *)
(* appended to calls as <<receiver, function>>.                             *)

Keys ==
    {"SDLK_ESCAPE", "SDLK_LCTRL", "SDLK_w", "SDLK_s", "SDLK_a", "SDLK_d",
     "SDLK_SPACE", "SDLK_LSHIFT", "SDLK_b", "SDLK_F11", "SDLK_x"}

Buttons ==
    {"SDL_BUTTON_LEFT", "SDL_BUTTON_RIGHT", "SDL_BUTTON_MIDDLE",
     "SDL_BUTTON_WHEELUP", "SDL_BUTTON_WHEELDOWN"}

KeyboardEvents == {"SDL_KEYDOWN", "SDL_KEYUP"} \X Keys
MouseEvents ==
    {<<"SDL_MOUSEMOTION", "">>} \cup ({"SDL_MOUSEBUTTONDOWN", "SDL_MOUSEBUTTONUP"} \X Buttons)
ResizeEvents == {"SDL_VIDEORESIZE"} \X WindowSizes
Events ==
    KeyboardEvents \cup MouseEvents \cup ResizeEvents
        \cup {<<"SDL_QUIT", "">>, <<"SDL_ACTIVEEVENT", "">>}

EscapeKeyDown == <<"SDL_KEYDOWN", "SDLK_ESCAPE">>

\* The fields of the application that the handling of an event reads or writes.
Application ==
    [run_ |-> run_, gui_focused_ |-> gui_focused_, gui_stashed |-> gui_stashed,
     cursor |-> cursor, grab |-> grab, player_ |-> player_, window_ |-> window_,
     first_event |-> first_event, calls |-> calls]

Call(a, receiver, function) == [a EXCEPT !.calls = Append(@, <<receiver, function>>)]

\* player_.request_...( value )
Request(a, request, value) ==
    Call([a EXCEPT !.player_[request] = value], "player_", request)

stop(a) == Call([a EXCEPT !.run_ = FALSE], "this", "stop")

\* A toggle that leaves the input grab as it is.
toggle_gui_focus_keeps_grab(a) ==
    Call([a EXCEPT !.cursor = IF @ = "SDL_ENABLE" THEN "SDL_DISABLE" ELSE "SDL_ENABLE",
                   !.gui_focused_ = ~@,
                   !.gui_stashed = a.gui_focused_],
         "this", "toggle_gui_focus")

toggle_gui_focus(a) ==
    Call([a EXCEPT !.cursor = IF @ = "SDL_ENABLE" THEN "SDL_DISABLE" ELSE "SDL_ENABLE",
                   !.grab = IF @ = "SDL_GRAB_ON" THEN "SDL_GRAB_OFF" ELSE "SDL_GRAB_ON",
                   !.gui_focused_ = ~@,
                   !.gui_stashed = IF ~a.gui_focused_ THEN FALSE ELSE TRUE],
         "this", "toggle_gui_focus")

\* The request each movement key stands for.
KeyRequest ==
    [k \in Keys |->
        CASE k = "SDLK_LCTRL" -> "fast_move"
          [] k = "SDLK_w" -> "move_forward"
          [] k = "SDLK_s" -> "move_backward"
          [] k = "SDLK_a" -> "strafe_left"
          [] k = "SDLK_d" -> "strafe_right"
          [] k = "SDLK_SPACE" -> "jump"
          [] k = "SDLK_LSHIFT" -> "crouch"
          [] OTHER -> ""]

handle_key_down_event(a, key) ==
    CASE KeyRequest[key] # "" -> Request(a, KeyRequest[key], TRUE)
      [] key = "SDLK_b" -> Call(a, "player_", "toggle_noclip")
      [] OTHER -> a

handle_key_up_event(a, key) ==
    CASE KeyRequest[key] # "" -> Request(a, KeyRequest[key], FALSE)
      [] key = "SDLK_F11" -> Call(a, "this", "toggle_fullscreen")
      [] OTHER -> a

handle_mouse_motion_event(a) ==
    IF a.first_event
    THEN [a EXCEPT !.first_event = FALSE]
    ELSE Call(a, "player_", "adjust_direction")

handle_mouse_down_event(a, button) ==
    CASE button = "SDL_BUTTON_LEFT" -> Request(a, "primary_fire", TRUE)
      [] button = "SDL_BUTTON_RIGHT" -> Request(a, "secondary_fire", TRUE)
      [] button = "SDL_BUTTON_WHEELUP" -> Call(a, "player_", "select_next_material")
      [] button = "SDL_BUTTON_WHEELDOWN" -> Call(a, "player_", "select_previous_material")
      [] OTHER -> a

handle_mouse_up_event(a, button) ==
    CASE button = "SDL_BUTTON_LEFT" -> Request(a, "primary_fire", FALSE)
      [] button = "SDL_BUTTON_RIGHT" -> Request(a, "secondary_fire", FALSE)
      [] OTHER -> a

\* window_.reshape_window( w, h )
reshape_window(a, size) == Call([a EXCEPT !.window_ = size], "window_", "reshape_window")

\* The second switch of handle_event.
HandlePlayerEvent(a, e) ==
    CASE e[1] = "SDL_KEYDOWN" -> handle_key_down_event(a, e[2])
      [] e[1] = "SDL_KEYUP" -> handle_key_up_event(a, e[2])
      [] e[1] = "SDL_MOUSEMOTION" -> handle_mouse_motion_event(a)
      [] e[1] = "SDL_MOUSEBUTTONDOWN" -> handle_mouse_down_event(a, e[2])
      [] e[1] = "SDL_MOUSEBUTTONUP" -> handle_mouse_up_event(a, e[2])
      [] OTHER -> a

\* A handle_event without the test of gui_focused_.
HandleUnfocused(a, e) == HandlePlayerEvent(a, e)

\* The part of handle_event after its first switch.
HandleFocusedOrPlayer(a, e) ==
    IF a.gui_focused_ THEN Call(a, "gui_", "handle_event") ELSE HandlePlayerEvent(a, e)

\* handle_event( event ), from an application with an empty list of calls
handle_event(a, e) ==
    CASE e[1] = "SDL_KEYDOWN" ->
            IF e[2] = "SDLK_ESCAPE" THEN toggle_gui_focus(a) ELSE HandleFocusedOrPlayer(a, e)
      [] e[1] = "SDL_VIDEORESIZE" -> Call(reshape_window(a, e[2]), "gui_", "handle_event")
      [] e[1] = "SDL_QUIT" -> HandleFocusedOrPlayer(stop(a), e)
      [] OTHER -> HandleFocusedOrPlayer(a, e)

\* The number of keys and buttons a user holds down at once.
MaxHeld == 2

Held(p) == Cardinality({r \in Requests : p[r]})

\* The events the user can cause: no further key or button goes down while
\* MaxHeld requests are set.
Possible(e) ==
    e[1] \in {"SDL_KEYDOWN", "SDL_MOUSEBUTTONDOWN"} => Held(player_) < MaxHeld

\* The application becomes a, all else is unchanged.
Becomes(a) ==
    /\ run_' = a.run_
    /\ gui_focused_' = a.gui_focused_
    /\ gui_stashed' = a.gui_stashed
    /\ cursor' = a.cursor
    /\ grab' = a.grab
    /\ player_' = a.player_
    /\ window_' = a.window_
    /\ first_event' = a.first_event
    /\ calls' = a.calls

\* GameApplication::GameApplication, after create_window: the Gui is stashed,
\* the cursor hidden and the input grabbed.
InitEvents ==
    /\ NoGeneration
    /\ run_ = FALSE
    /\ gui_focused_ = FALSE
    /\ gui_stashed = TRUE
    /\ cursor = "SDL_DISABLE"
    /\ grab = "SDL_GRAB_ON"
    /\ player_ = NoRequests
    /\ window_ \in WindowSizes
    /\ first_event = TRUE
    /\ event = NoEvent
    /\ calls = <<>>
    /\ main_pc = "constructed"
    /\ updated_chunks_ = {}
    /\ chunk_lock = "free"
    /\ chunk_updater_ = IdlePool
    /\ external_faces = <<>>
    /\ noted = <<>>
    /\ chunk_renderers_ = <<>>
    /\ last_note = <<>>
    /\ scene = NoScene
    /\ drawn = <<>>

\* handle_event is called with the event e.
HandleEvent(e) ==
    /\ Possible(e)
    /\ event' = e
    /\ Becomes(handle_event([Application EXCEPT !.calls = <<>>], e))
    /\ UNCHANGED <<main_pc, updated_chunks_, chunk_lock, chunk_updater_, external_faces,
                   noted, chunk_renderers_, last_note, scene, drawn>>
    /\ UNCHANGED generator_vars

NextEvents == \E e \in Events : HandleEvent(e)

SpecEvents == InitEvents /\ [][NextEvents]_vars

-----------------------------------------------------------------------------
(* Renderer (src/src/renderer.cc)                                          *)
(*                                                                         *)
(* A chunk is [position, external_faces]; a face is [material_, vertices_] *)
(* with its four corners in blocks.  Centroids, the camera position and    *)
(* the distances derived from them are counted in quarters of a block (Q). *)
(* A ChunkRenderer lives on the heap: address stands for its pointer, the  *)
(* second member of a DistanceChunkPair.                                   *)

BLOCK_MATERIAL_WATER == "water"
BLOCK_MATERIAL_GLASS == "glass"

\* get_block_material_attributes( material ).translucent_
translucent_(material) == material \in {BLOCK_MATERIAL_WATER, BLOCK_MATERIAL_GLASS}

VERTICES_PER_FACE == 4

Plus(a, b) == <<a[1] + b[1], a[2] + b[2], a[3] + b[3]>>
Minus(a, b) == <<a[1] - b[1], a[2] - b[2], a[3] - b[3]>>
lengthSquared(v) == v[1] * v[1] + v[2] * v[2] + v[3] * v[3]

\* The upper face of the block at b.
UpperFace(material, b) ==
    [material_ |-> material,
     vertices_ |-> <<Plus(b, <<0, 1, 0>>), Plus(b, <<1, 1, 0>>),
                     Plus(b, <<1, 1, 1>>), Plus(b, <<0, 1, 1>>)>>]

\* The pairs of S in ascending order, as std::set iterates them.
RECURSIVE Ascending(_)
Ascending(pairs) ==
    IF pairs = {} THEN <<>>
    ELSE LET least == CHOOSE p \in pairs :
                         \A q \in pairs : p[1] < q[1] \/ (p[1] = q[1] /\ p[2] <= q[2])
         IN  <<least>> \o Ascending(pairs \ {least})

Reverse(seq) == [n \in 1..Len(seq) |-> seq[Len(seq) + 1 - n]]

\* SortableChunkVertexBuffer::SortableChunkVertexBuffer: centroid /= 4 of the
\* sum of the four vertices is that sum in quarters.
SortableChunkVertexBuffer(materials, faces) ==
    [materials_ |-> materials,
     centroids_ |-> [n \in 1..Len(faces) |->
                        Plus(Plus(faces[n].vertices_[1], faces[n].vertices_[2]),
                             Plus(faces[n].vertices_[3], faces[n].vertices_[4]))]]

\* SortableChunkVertexBuffer::render_sorted: one draw call, with the
\* material it is configured with and the indices it draws.
RECURSIVE FaceIndices(_)
FaceIndices(pairs) ==
    IF pairs = <<>> THEN <<>>
    ELSE LET first == pairs[1][2]
         IN  <<first + 0, first + 3, first + 2, first + 0, first + 2, first + 1>>
                 \o FaceIndices(Tail(pairs))

render_sorted(distance_indices, material) ==
    [material |-> material, indices |-> FaceIndices(Reverse(Ascending(distance_indices)))]

\* The loop of SortableChunkVertexBuffer::render from face n on (faces are
\* numbered from 1 here, i is n - 1), and the call after the loop.
RECURSIVE RenderFaces(_, _, _, _, _, _)
RenderFaces(vbo, camera, n, current_material_, distance_indices, draws) ==
    IF n > Len(vbo.materials_)
    THEN IF distance_indices # {}
         THEN Append(draws, render_sorted(distance_indices, current_material_))
         ELSE draws
    ELSE LET material == vbo.materials_[n]
             changed == material # current_material_
             distance_squared == lengthSquared(Minus(camera, vbo.centroids_[n]))
         IN  RenderFaces(vbo, camera, n + 1, material,
                         (IF changed THEN {} ELSE distance_indices)
                             \cup {<<distance_squared, (n - 1) * VERTICES_PER_FACE>>},
                         IF changed
                         THEN Append(draws, render_sorted(distance_indices, material))
                         ELSE draws)

\* SortableChunkVertexBuffer::render: the draw calls made, in order
SortableRender(vbo, camera) ==
    RenderFaces(vbo, camera, 1, vbo.materials_[1], {}, <<>>)

NoVbo == <<>>

\* new ChunkRenderer( centroid, aabb )
ChunkRenderer(centroid, aabb, address) ==
    [centroid_ |-> centroid, aabb_ |-> aabb, address |-> address, num_triangles_ |-> 0,
     opaque_materials_ |-> {}, translucent_vbo_ |-> NoVbo]

IsTranslucent(face) == translucent_(face.material_)
IsOpaque(face) == ~translucent_(face.material_)
Materials(faces) == [n \in 1..Len(faces) |-> faces[n].material_]

\* ChunkRenderer::rebuild
rebuild(renderer, faces) ==
    [renderer EXCEPT
        !.num_triangles_ = Len(faces) * 2,
        !.opaque_materials_ = {faces[n].material_ : n \in {m \in 1..Len(faces) : IsOpaque(faces[m])}},
        !.translucent_vbo_ =
            IF SelectSeq(faces, IsTranslucent) # <<>>
            THEN SortableChunkVertexBuffer(Materials(SelectSeq(faces, IsTranslucent)),
                                           SelectSeq(faces, IsTranslucent))
            ELSE NoVbo]

Without(f, x) == [y \in DOMAIN f \ {x} |-> f[y]]

\* vector_cast<Scalar>( chunk.get_position() ), in quarters
Scaled(v) == <<v[1] * Q, v[2] * Q, v[3] * Q>>
ChunkSize == <<SIZE_X, SIZE_Y, SIZE_Z>>
Halved(v) == <<v[1] \div 2, v[2] \div 2, v[3] \div 2>>

\* A note_chunk_changes that keeps the renderer of a chunk without faces.
note_chunk_changes_keeps(renderers, chunk, address) ==
    IF chunk.position \notin DOMAIN renderers
    THEN IF chunk.external_faces # <<>>
         THEN renderers @@
              (chunk.position :>
                  rebuild(ChunkRenderer(Plus(Scaled(chunk.position), Halved(Scaled(ChunkSize))),
                                        <<Scaled(chunk.position),
                                          Plus(Scaled(chunk.position), Scaled(ChunkSize))>>,
                                        address),
                          chunk.external_faces))
         ELSE renderers
    ELSE [renderers EXCEPT ![chunk.position] = rebuild(@, chunk.external_faces)]

\* Renderer::note_chunk_changes; address is where new ChunkRenderer lands.
note_chunk_changes(renderers, chunk, address) ==
    IF chunk.position \notin DOMAIN renderers
    THEN IF chunk.external_faces # <<>>
         THEN renderers @@
              (chunk.position :>
                  rebuild(ChunkRenderer(Plus(Scaled(chunk.position), Halved(Scaled(ChunkSize))),
                                        <<Scaled(chunk.position),
                                          Plus(Scaled(chunk.position), Scaled(ChunkSize))>>,
                                        address),
                          chunk.external_faces))
         ELSE renderers
    ELSE IF chunk.external_faces = <<>>
         THEN Without(renderers, chunk.position)
         ELSE [renderers EXCEPT ![chunk.position] = rebuild(@, chunk.external_faces)]

\* The DistanceChunkPair of the renderer at position p.
DistanceChunk(camera, renderers, p) ==
    <<lengthSquared(Minus(camera, renderers[p].centroid_)), renderers[p].address>>

RendererAt(renderers, address) ==
    renderers[CHOOSE p \in DOMAIN renderers : renderers[p].address = address]

\* The opaque pass of render_chunks: for each material, the renderers drawn
\* with it, in order.
RenderOpaque(camera, visible, renderers) ==
    [material \in UNION {renderers[p].opaque_materials_ : p \in visible} |->
        Ascending({DistanceChunk(camera, renderers, p) :
                      p \in {v \in visible : material \in renderers[v].opaque_materials_}})]

\* The translucent pass of render_chunks: for each element of
\* translucent_chunks in the order of the loop, the renderer and the draw
\* calls of its render_translucent.
RenderTranslucent(camera, visible, renderers) ==
    LET translucent_chunks ==
            Ascending({DistanceChunk(camera, renderers, p) :
                          p \in {v \in visible : renderers[v].translucent_vbo_ # NoVbo}})
    IN  [n \in 1..Len(translucent_chunks) |->
            [distance_squared |-> translucent_chunks[n][1],
             address |-> translucent_chunks[n][2],
             draws |-> SortableRender(RendererAt(renderers, translucent_chunks[n][2]).translucent_vbo_,
                                      camera)]]

\* Renderer::render_chunks; visible holds the positions of the renderers
\* whose box is in the view frustum.
render_chunks(camera, visible, renderers) ==
    [camera |-> camera,
     num_chunks_drawn_ |-> Cardinality(visible),
     opaque |-> RenderOpaque(camera, visible, renderers),
     translucent |-> RenderTranslucent(camera, visible, renderers)]

\* The chunk positions of the scenes, in the order of the ChunkMap.
ScenePositions == << <<0, 0, 0>>, <<0, 16, 0>>, <<16, 0, 0>> >>

\* The lists of external faces a chunk at p is given.
FaceLists(p) ==
    { <<>>,
      <<UpperFace(BLOCK_MATERIAL_GRASS, p)>>,
      <<UpperFace(BLOCK_MATERIAL_GRASS, p), UpperFace(BLOCK_MATERIAL_WATER, Plus(p, <<1, 0, 0>>))>>,
      <<UpperFace(BLOCK_MATERIAL_WATER, Plus(p, <<1, 0, 0>>)),
        UpperFace(BLOCK_MATERIAL_WATER, Plus(p, <<5, 0, 0>>)),
        UpperFace(BLOCK_MATERIAL_GLASS, Plus(p, <<3, 0, 0>>))>> }

\* The camera positions, in quarters.
Cameras == {<<0, 0, 0>>, <<16 * Q, 20 * Q, 8 * Q>>}

\* The chunks of the world from the n-th position on are noted, as the
\* constructor of GameApplication does; heap[n] is where the renderer of the
\* n-th position lands.
RECURSIVE NoteAll(_, _, _, _, _)
NoteAll(renderers, positions, faces, heap, n) ==
    IF n > Len(positions) THEN renderers
    ELSE NoteAll(note_chunk_changes(renderers,
                                    [position |-> positions[n],
                                     external_faces |-> faces[positions[n]]],
                                    heap[n]),
                 positions, faces, heap, n + 1)

Range(seq) == {seq[n] : n \in 1..Len(seq)}

\* The worlds over the positions: each chunk with one of its lists of faces.
Worlds(positions) ==
    {f \in [Range(positions) -> UNION {FaceLists(p) : p \in Range(positions)}] :
        \A p \in Range(positions) : f[p] \in FaceLists(p)}

Heaps == {<<1, 2, 3>>, <<3, 2, 1>>}

\* A renderer over a constructed world, about to render.
InitRender ==
    /\ NoGeneration
    /\ run_ = TRUE
    /\ gui_focused_ = FALSE
    /\ gui_stashed = TRUE
    /\ cursor = "SDL_DISABLE"
    /\ grab = "SDL_GRAB_ON"
    /\ player_ = NoRequests
    /\ window_ = <<800, 600>>
    /\ first_event = TRUE
    /\ event = NoEvent
    /\ calls = <<>>
    /\ main_pc = "render"
    /\ updated_chunks_ = {}
    /\ chunk_lock = "free"
    /\ chunk_updater_ = IdlePool
    /\ external_faces \in Worlds(ScenePositions)
    /\ noted = <<>>
    /\ \E heap \in Heaps :
          chunk_renderers_ = NoteAll(<<>>, ScenePositions, external_faces, heap, 1)
    /\ last_note = external_faces
    /\ scene \in [camera : Cameras, visible : SUBSET DOMAIN chunk_renderers_]
    /\ drawn = <<>>

\* Renderer::render, from GameApplication::render
RenderScene ==
    /\ main_pc = "render"
    /\ main_pc' = "rendered"
    /\ drawn' = render_chunks(scene.camera, scene.visible, chunk_renderers_)
    /\ UNCHANGED <<run_, gui_focused_, gui_stashed, cursor, grab, player_, window_,
                   first_event, event, calls, updated_chunks_, chunk_lock, chunk_updater_,
                   external_faces, noted, chunk_renderers_, last_note, scene>>
    /\ UNCHANGED generator_vars

NextRender == RenderScene

SpecRender == InitRender /\ [][NextRender]_vars

-----------------------------------------------------------------------------
(* GameApplication: the main loop and the chunk updates                    *)
(* (src/src/game_application.cc)                                           *)
(*                                                                         *)
(* Two threads run: the main thread in main_loop, and the one worker of    *)
(* the thread pool chunk_updater_, which executes the World::update_chunks *)
(* tasks.  The World and the thread pool are outside the sources: what the *)
(* World answers is any value of its type, the chunk lock is a mutex, and  *)
(* the pool counts its pending tasks and knows whether its worker is       *)
(* executing one.                                                          *)

\* The chunk positions of the world, in the order of the ChunkMap.
LoopPositions == << <<0, 0, 0>>, <<0, 16, 0>> >>

LoopHeaps == {<<1, 2>>, <<2, 1>>}

\* The lists of external faces a chunk of the world at p is given.
LoopFaceLists(p) ==
    { <<>>,
      <<UpperFace(BLOCK_MATERIAL_GRASS, p)>>,
      <<UpperFace(BLOCK_MATERIAL_GRASS, p), UpperFace(BLOCK_MATERIAL_WATER, Plus(p, <<1, 0, 0>>))>> }

LoopWorlds ==
    {f \in Worlds(LoopPositions) : \A p \in Range(LoopPositions) : f[p] \in LoopFaceLists(p)}

\* GameApplication::GameApplication: player_( Vector3f( 0.0f, 200.0f, 0.0f ), ... )
PlayerPosition == <<0, 200 * Q, 0>>

\* Where a new ChunkRenderer can land: an address no renderer lives at.
FreeAddresses(renderers) ==
    (1..Len(LoopPositions)) \ {renderers[p].address : p \in DOMAIN renderers}

\* chunk_guard.try_lock()
try_lock(lock) == lock = "free"

\* chunk_updater_.wait( not_long ): true when no task is pending or executing
wait(pool) == pool.pending = 0 /\ ~pool.active

\* chunk_updater_.schedule( task )
schedule(pool) == [pool EXCEPT !.pending = @ + 1]

\* A condition that does not ask the chunk updater.
may_update_unchecked(lock, pool) == try_lock(lock)

\* The condition of schedule_chunk_update
may_update(lock, pool) == try_lock(lock) /\ wait(pool)

\* A loop that handles the chunk changes only when no frame is due.
main_loop_changes_between_frames(at, run, due) ==
    CASE at = "loop" -> IF run THEN "events" ELSE "returned"
      [] at = "events" -> IF due THEN "step" ELSE "changes"
      [] at = "changes" -> "loop"
      [] at = "step" -> "schedule"
      [] at = "schedule" -> "render"
      [] at = "render" -> "loop"

\* main_loop: the position after at; due is elapsed >= FRAME_INTERVAL.
main_loop(at, run, due) ==
    CASE at = "loop" -> IF run THEN "events" ELSE "returned"
      [] at = "events" -> "changes"
      [] at = "changes" -> IF due THEN "step" ELSE "loop"
      [] at = "step" -> "schedule"
      [] at = "schedule" -> "render"
      [] at = "render" -> "loop"

\* The queues of events SDL_PollEvent hands out during one process_events.
PolledEvents == {<<>>, << <<"SDL_QUIT", "">> >>, <<EscapeKeyDown, EscapeKeyDown>>}

\* process_events: handle_event for each polled event
RECURSIVE HandleEvents(_, _)
HandleEvents(a, polled) ==
    IF polled = <<>> THEN a
    ELSE HandleEvents(handle_event([a EXCEPT !.calls = <<>>], Head(polled)), Tail(polled))

\* GameApplication::GameApplication: every chunk of the world is noted.
InitLoop ==
    /\ NoGeneration
    /\ run_ = FALSE
    /\ gui_focused_ = FALSE
    /\ gui_stashed = TRUE
    /\ cursor = "SDL_DISABLE"
    /\ grab = "SDL_GRAB_ON"
    /\ player_ = NoRequests
    /\ window_ = <<800, 600>>
    /\ first_event = TRUE
    /\ event = NoEvent
    /\ calls = <<>>
    /\ main_pc = "constructed"
    /\ updated_chunks_ = {}
    /\ chunk_lock = "free"
    /\ chunk_updater_ = IdlePool
    /\ external_faces \in LoopWorlds
    /\ noted = <<>>
    /\ \E heap \in LoopHeaps :
          chunk_renderers_ = NoteAll(<<>>, LoopPositions, external_faces, heap, 1)
    /\ last_note = external_faces
    /\ scene = NoScene
    /\ drawn = <<>>

\* What the steps of the main thread leave alone.
MainUnchanged(unchanged) == UNCHANGED unchanged /\ UNCHANGED generator_vars

\* main_loop is called: run_ = true
MainLoopBegin ==
    /\ main_pc = "constructed"
    /\ run_' = TRUE
    /\ main_pc' = "loop"
    /\ MainUnchanged(<<gui_focused_, gui_stashed, cursor, grab, player_, window_, first_event,
                       event, calls, updated_chunks_, chunk_lock, chunk_updater_,
                       external_faces, noted, chunk_renderers_, last_note, scene, drawn>>)

\* while ( run_ )
LoopTest ==
    /\ main_pc = "loop"
    /\ main_pc' = main_loop("loop", run_, FALSE)
    /\ MainUnchanged(<<run_, gui_focused_, gui_stashed, cursor, grab, player_, window_,
                       first_event, event, calls, updated_chunks_, chunk_lock, chunk_updater_,
                       external_faces, noted, chunk_renderers_, last_note, scene, drawn>>)

\* process_events(), and the test elapsed >= FRAME_INTERVAL made before it
ProcessEvents ==
    /\ main_pc = "events"
    /\ \E polled \in PolledEvents, due \in BOOLEAN :
          /\ Becomes(HandleEvents(Application, polled))
          /\ event' = IF polled = <<>> THEN event ELSE polled[Len(polled)]
          /\ main_pc' = main_loop("events", run_, due)
    /\ MainUnchanged(<<updated_chunks_, chunk_lock, chunk_updater_, external_faces, noted,
                       chunk_renderers_, last_note, scene, drawn>>)

\* handle_chunk_changes up to its loop: nothing to do, or the chunk lock is
\* taken once it is free.
HandleChunkChangesLock ==
    /\ main_pc = "changes"
    /\ IF updated_chunks_ = {}
       THEN /\ \E due \in BOOLEAN : main_pc' = main_loop("changes", run_, due)
            /\ UNCHANGED <<chunk_lock, noted>>
       ELSE /\ chunk_lock = "free"
            /\ chunk_lock' = "main"
            /\ noted' = <<>>
            /\ main_pc' = "noting"
    /\ MainUnchanged(<<run_, gui_focused_, gui_stashed, cursor, grab, player_, window_,
                       first_event, event, calls, updated_chunks_, chunk_updater_,
                       external_faces, chunk_renderers_, last_note, scene, drawn>>)

Noted(p) == {n \in 1..Len(noted) : noted[n].position = p}

\* One pass of the loop of handle_chunk_changes: the next chunk of
\* updated_chunks_ is noted.
NoteChunkChanges ==
    /\ main_pc = "noting"
    /\ \E p \in {u \in updated_chunks_ : Noted(u) = {}} :
       \E address \in FreeAddresses(Without(chunk_renderers_, p)) :
          /\ chunk_renderers_' =
                note_chunk_changes(chunk_renderers_,
                                   [position |-> p, external_faces |-> external_faces[p]],
                                   address)
          /\ last_note' = [last_note EXCEPT ![p] = external_faces[p]]
          /\ noted' = Append(noted, [position |-> p, lock |-> chunk_lock,
                                     found |-> p \in DOMAIN chunk_renderers_])
    /\ MainUnchanged(<<run_, gui_focused_, gui_stashed, cursor, grab, player_, window_,
                       first_event, event, calls, main_pc, updated_chunks_, chunk_lock,
                       chunk_updater_, external_faces, scene, drawn>>)

\* The end of handle_chunk_changes: updated_chunks_.clear(), the lock is released.
HandleChunkChangesClear ==
    /\ main_pc = "noting"
    /\ \A u \in updated_chunks_ : Noted(u) # {}
    /\ updated_chunks_' = {}
    /\ noted' = <<>>
    /\ chunk_lock' = "free"
    /\ \E due \in BOOLEAN : main_pc' = main_loop("changes", run_, due)
    /\ MainUnchanged(<<run_, gui_focused_, gui_stashed, cursor, grab, player_, window_,
                       first_event, event, calls, chunk_updater_, external_faces,
                       chunk_renderers_, last_note, scene, drawn>>)

\* The external faces of one chunk become any list, or all stay.
WorldChanges ==
    \E p \in Range(LoopPositions) : \E faces \in LoopFaceLists(p) :
        external_faces' = [external_faces EXCEPT ![p] = faces]

\* do_one_step, under the chunk lock from its first line to its last
DoOneStep ==
    /\ main_pc = "step"
    /\ chunk_lock = "free"
    /\ WorldChanges
    /\ main_pc' = main_loop("step", run_, TRUE)
    /\ MainUnchanged(<<run_, gui_focused_, gui_stashed, cursor, grab, player_, window_,
                       first_event, event, calls, updated_chunks_, chunk_lock, chunk_updater_,
                       noted, chunk_renderers_, last_note, scene, drawn>>)

\* schedule_chunk_update: get_updated_chunks answers any set of chunks,
\* chunk_update_needed either way.
ScheduleChunkUpdate ==
    /\ main_pc = "schedule"
    /\ IF may_update(chunk_lock, chunk_updater_)
       THEN \E updated \in SUBSET Range(LoopPositions), needed \in BOOLEAN :
               /\ updated_chunks_' = updated
               /\ chunk_updater_' = IF needed THEN schedule(chunk_updater_) ELSE chunk_updater_
       ELSE UNCHANGED <<updated_chunks_, chunk_updater_>>
    /\ main_pc' = main_loop("schedule", run_, TRUE)
    /\ MainUnchanged(<<run_, gui_focused_, gui_stashed, cursor, grab, player_, window_,
                       first_event, event, calls, chunk_lock, external_faces, noted,
                       chunk_renderers_, last_note, scene, drawn>>)

\* render: the chunks are drawn from where the player stands, all of them
\* in view.
Render ==
    /\ main_pc = "render"
    /\ \E sc \in [camera : {PlayerPosition}, visible : {DOMAIN chunk_renderers_}] :
          /\ scene' = sc
          /\ drawn' = render_chunks(sc.camera, sc.visible, chunk_renderers_)
    /\ main_pc' = main_loop("render", run_, TRUE)
    /\ MainUnchanged(<<run_, gui_focused_, gui_stashed, cursor, grab, player_, window_,
                       first_event, event, calls, updated_chunks_, chunk_lock, chunk_updater_,
                       external_faces, noted, chunk_renderers_, last_note>>)

\* The steps of the worker leave the main thread where it is.
UpdaterUnchanged(unchanged) ==
    /\ UNCHANGED unchanged
    /\ UNCHANGED <<run_, gui_focused_, gui_stashed, cursor, grab, player_, window_,
                   first_event, event, calls, main_pc, updated_chunks_, noted,
                   chunk_renderers_, last_note, scene, drawn>>
    /\ UNCHANGED generator_vars

\* The worker takes the pending task and starts to execute it.
UpdaterTake ==
    /\ chunk_updater_.pending > 0
    /\ ~chunk_updater_.active
    /\ chunk_updater_' = [pending |-> chunk_updater_.pending - 1, active |-> TRUE]
    /\ UpdaterUnchanged(<<chunk_lock, external_faces>>)

\* World::update_chunks takes the chunk lock.
UpdaterLock ==
    /\ chunk_updater_.active
    /\ chunk_lock = "free"
    /\ chunk_lock' = "updater"
    /\ UpdaterUnchanged(<<chunk_updater_, external_faces>>)

\* World::update_chunks updates the chunks and releases the chunk lock.
UpdaterUpdate ==
    /\ chunk_lock = "updater"
    /\ WorldChanges
    /\ chunk_lock' = "free"
    /\ UpdaterUnchanged(<<chunk_updater_>>)

\* The task returns: the worker is idle again.
UpdaterDone ==
    /\ chunk_updater_.active
    /\ chunk_lock # "updater"
    /\ chunk_updater_' = [chunk_updater_ EXCEPT !.active = FALSE]
    /\ UpdaterUnchanged(<<chunk_lock, external_faces>>)

NextLoop ==
    \/ MainLoopBegin
    \/ LoopTest
    \/ ProcessEvents
    \/ HandleChunkChangesLock
    \/ NoteChunkChanges
    \/ HandleChunkChangesClear
    \/ DoOneStep
    \/ ScheduleChunkUpdate
    \/ Render
    \/ UpdaterTake
    \/ UpdaterLock
    \/ UpdaterUpdate
    \/ UpdaterDone

SpecLoop == InitLoop /\ [][NextLoop]_vars

-----------------------------------------------------------------------------
(* The claims *)

Key == <<world_seed_, position>>

\* C1: generate_region is a pure function of the world seed and the region
\* position: whenever it returns for a seed and a position it returned for
\* before, whatever was generated in between, the chunk list is the one it
\* returned then (same origins in the same order, same material in every
\* block); and no step of it changes world_seed_.
C1_GenerateRegionPure ==
    [][/\ (pc' = "return" /\ <<world_seed_', position'>> \in DOMAIN returned'
            => chunks' = returned'[<<world_seed_', position'>>])
       /\ world_seed_' = world_seed_]_vars

\* C1 witness: a region is returned again after the other region was generated.
C1_Witness ==
    /\ pc = "return"
    /\ Key \in DOMAIN returned
    /\ Cardinality(DOMAIN returned) = 2
    /\ chunks = returned[Key]
    /\ Len(chunks) > 0
    /\ tree.height > 0

\* C2: the fundamental patches of two adjacent regions built independently
\* with one seed agree at every point of the edge they share: the first at
\* normalized coordinate 1 equals the second at normalized coordinate 0.
C2_SeamContinuity == pc = "sampled" => sampled[1] = sampled[2]

\* C2 witness: an inner point of the shared edge of a region at a negative
\* position was sampled from both sides.
C2_Witness ==
    /\ pc = "sampled"
    /\ probe.at[1] < 0
    /\ probe.n > 0 /\ probe.n < REGION_SIZE
    /\ sampled[1] = sampled[2]
    /\ sampled[1] # 0

\* C3: the band tops of a column are non-decreasing in the band order.
C3_BandTopsMonotonic ==
    \A a \in 1..Len(tops) : \A b \in a..Len(tops) : tops[a] <= tops[b]

\* C3 witness: a column of total_height -1000 was layered.
C3_Witness ==
    /\ pc = "layered"
    /\ total_height = -1000 * Q
    /\ Len(tops) = num_layers
    /\ tops[1] < tops[num_layers]

\* The material of the block the heightmap entry of the tree attempt names,
\* in the chunks cs.
RootMaterial(cs) == MaterialAt(cs, tree.x, tree.z, heights[tree.x + 1][tree.z + 1])

\* C4: a tree attempt whose surface block is not grass changes no block of the
\* column: trunk and leaf are written only over a grass surface block.
C4_TreeOnlyOnGrass ==
    pc = "insert" /\ column_chunks # before_trees
        => RootMaterial(before_trees) = BLOCK_MATERIAL_GRASS

\* C4 witness: the surface block of an attempt was air left by the carving.
C4_Witness ==
    /\ pc = "insert"
    /\ RootMaterial(before_trees) = BLOCK_MATERIAL_AIR
    /\ column_chunks = before_trees

ColumnCells == (0..(SIZE_X - 1)) \X (0..(SIZE_Z - 1))

\* C5: every block away from the trunk that was not air before the
\* vegetation pass keeps its material, and a leaf is only where air was.
C5_LeavesOnlyOverAir ==
    pc = "insert" =>
        \A c \in ColumnCells : \A y \in 0..(Len(column_chunks) * SIZE_Y - 1) :
            LET old == MaterialAt(before_trees, c[1], c[2], y)
                new == MaterialAt(column_chunks, c[1], c[2], y)
            IN  /\ (c # <<tree.x, tree.z>> /\ old # BLOCK_MATERIAL_AIR => new = old)
                /\ (new = BLOCK_MATERIAL_TREE_LEAF => old = BLOCK_MATERIAL_AIR)

\* C5 witness: a tree was placed, and a terrain block inside the square of its
\* first leaf level was left as it was.
C5_Witness ==
    /\ pc = "insert"
    /\ column_chunks # before_trees
    /\ LET b == heights[tree.x + 1][tree.z + 1]
           y == b + tree.height - tree.radius - 1
       IN  \E u \in (-tree.radius)..tree.radius :
               /\ u # 0
               /\ MaterialAt(before_trees, tree.x + u, tree.z, y) = BLOCK_MATERIAL_STONE
               /\ MaterialAt(column_chunks, tree.x + u, tree.z, y) = BLOCK_MATERIAL_STONE
               /\ MaterialAt(column_chunks, tree.x - u, tree.z, y) = BLOCK_MATERIAL_TREE_LEAF

BandMaterials ==
    { BLOCK_MATERIAL_MAGMA, BLOCK_MATERIAL_BEDROCK, BLOCK_MATERIAL_STONE,
      BLOCK_MATERIAL_CLAY, BLOCK_MATERIAL_DIRT, BLOCK_MATERIAL_GRASS }

\* C6: after a column is layered its heightmap entry is the height of its
\* topmost solid block: the block there holds a band material and every block
\* above it is air.
C6_HeightmapTopmostSolid ==
    pc = "layered" =>
        LET h == heights[xz[1] + 1][xz[2] + 1]
        IN  /\ MaterialAt(column_chunks, xz[1], xz[2], h) \in BandMaterials
            /\ \A y \in (h + 1)..(Len(column_chunks) * SIZE_Y) :
                   MaterialAt(column_chunks, xz[1], xz[2], y) = BLOCK_MATERIAL_AIR

\* The density of box b at the cell y of the column being layered.
CellDensity(b, y) ==
    LET rel == relative_position(position, column_position, xz[1], xz[2])
    IN  Density(region_features, Profiles(region_features, rel, y), b, rel, y)

\* C7: a cell written by the pass of a band other than magma is air exactly
\* when both densities at the cell are strictly between 0.45 and 0.55, and
\* holds the material of the band otherwise.
C7_CarvedIffBothInWindow ==
    pc = "layer" /\ written.material # BLOCK_MATERIAL_MAGMA =>
        \A y \in written.lo..written.hi :
            MaterialAt(column_chunks, xz[1], xz[2], y) =
                IF /\ 450 < CellDensity(0, y) /\ CellDensity(0, y) < 550
                   /\ 450 < CellDensity(1, y) /\ CellDensity(1, y) < 550
                THEN BLOCK_MATERIAL_AIR
                ELSE written.material

\* C7 witness: a pass wrote a cell where one density is exactly 0.45 and the
\* other is inside the window, and the cell holds the material of the band.
C7_Witness ==
    /\ pc = "layer"
    /\ written.material = BLOCK_MATERIAL_STONE
    /\ written.lo < written.hi
    /\ CellDensity(0, written.hi) = 450
    /\ CellDensity(1, written.hi) = 500
    /\ MaterialAt(column_chunks, xz[1], xz[2], written.hi) = BLOCK_MATERIAL_STONE

\* C8: after a column is layered every cell of the magma band, height 0 up to
\* the top of the band, holds magma.
C8_MagmaBandHoldsMagma ==
    pc = "layered" =>
        \A y \in 0..tops[1] :
            MaterialAt(column_chunks, xz[1], xz[2], y) = BLOCK_MATERIAL_MAGMA

\* C10: the positions given to the fundamental patch and to the octave patch
\* have both components in [0, 1].
C10_PatchPositionsNormalized ==
    LET rel == relative_position(position, column_position, xz[1], xz[2])
    IN  \A k \in 1..2 :
            /\ 0 <= fundamental_position(rel)[k]
            /\ fundamental_position(rel)[k] <= REGION_SIZE
            /\ 0 <= octave_position(rel)[k]
            /\ octave_position(rel)[k] <= BICUBIC_OCTAVE_EDGE

\* C10 witness: the last column of the last chunk column of a region at a
\* negative position was layered.
C10_Witness ==
    /\ pc = "layered"
    /\ position[1] < 0
    /\ col = <<CHUNKS_PER_REGION_EDGE[1] - 1, CHUNKS_PER_REGION_EDGE[2] - 1>>
    /\ xz = <<SIZE_X - 1, SIZE_Z - 1>>

\* The column positions of the chunks of a list.
ColumnsOf(cs) == { <<cs[n].position[1], cs[n].position[3]>> : n \in 1..Len(cs) }

\* The column positions of the region at rp.
RegionColumns(rp) == { ColumnPosition(rp, c) : c \in ChunkColumns }

\* C11: a region is handed over whole: every list generate_region has
\* returned, and the list it is about to return, holds chunks of every chunk
\* column of the region and of no other, and the list about to be returned
\* ends with the chunks of the last column as populate_trees left them.
C11_RegionAtomic ==
    /\ \A k \in DOMAIN returned : ColumnsOf(returned[k]) = RegionColumns(k[2])
    /\ pc = "return" =>
           /\ ColumnsOf(chunks) = RegionColumns(position)
           /\ col[1] = CHUNKS_PER_REGION_EDGE[1]
           /\ Len(chunks) >= Len(column_chunks)
           /\ SubSeq(chunks, Len(chunks) - Len(column_chunks) + 1, Len(chunks)) = column_chunks

\* C11 witness: the region at a negative position is about to be returned
\* and the other region was returned before.
C11_Witness ==
    /\ pc = "return"
    /\ position[1] < 0
    /\ DOMAIN returned = { <<world_seed_, <<0, 0>> >> }
    /\ Cardinality(ColumnsOf(chunks)) = CHUNKS_PER_REGION_EDGE[1] * CHUNKS_PER_REGION_EDGE[2]

\* The fundamental patch of the region probed and of its neighbour.
ProbeFirst ==
    get_fundamental_patch(RegionFeatures(world_seed_, probe.at,
                                         fundamental_features, octave_features))
ProbeSecond ==
    get_fundamental_patch(RegionFeatures(world_seed_, Neighbour(probe.at, probe.axis),
                                         fundamental_features, octave_features))

\* The corner of the fundamental patch at the point at, a corner of the patch.
CornerAt(at) == CHOOSE c \in 1..4 : CornerOffsets(fundamental_size)[c] = at

\* C12: interpolate at a corner of the unit square returns exactly the height
\* sampled for that corner at construction.
C12_CornerExactness ==
    pc = "sampled" /\ probe.n \in {0, REGION_SIZE} =>
        /\ sampled[1] =
             ProbeFirst.corners[CornerAt(EdgePoint(probe.axis, REGION_SIZE, probe.n))][1]
        /\ sampled[2] =
             ProbeSecond.corners[CornerAt(EdgePoint(probe.axis, 0, probe.n))][1]

\* C12 witness: the corner (1,1) of a patch was sampled, a corner whose
\* slopes and twist are not zero.
C12_Witness ==
    /\ pc = "sampled"
    /\ probe.n = REGION_SIZE
    /\ CornerAt(EdgePoint(probe.axis, REGION_SIZE, probe.n)) = 3
    /\ sampled[1] = ProbeFirst.corners[3][1]
    /\ \A k \in 2..4 : ProbeFirst.corners[3][k] # 0

\* C13: for every world seed the two density boxes are given different
\* seeds, and the octave patches a seed different from the seed of the
\* fundamental patch.
C13_SaltsDiffer ==
    pc = "seeded" =>
        /\ sampled.boxes[1] # sampled.boxes[2]
        /\ region_features.boxes_[1].seed # region_features.boxes_[2].seed
        /\ sampled.octave # sampled.fundamental

\* C13 witness: the world seed is the salt of the second box itself, so the
\* second box is seeded with zero.
C13_Witness ==
    /\ pc = "seeded"
    /\ world_seed_ = BOX_SALT
    /\ sampled.boxes = <<BOX_SALT, <<0, 0, 0, 0>> >>
    /\ sampled.octave # sampled.fundamental

\* The greatest entry of a heightmap: the greatest height the layering addressed.
MaxHeight(hs) ==
    LET all == { hs[c[1] + 1][c[2] + 1] : c \in ColumnCells }
    IN  CHOOSE m \in all : \A n \in all : n <= m

\* The greatest height populate_trees addressed: the last trunk level of a
\* placed tree, the surface block of an attempt that placed none.
TreeTop ==
    LET b == heights[tree.x + 1][tree.z + 1]
    IN  IF RootMaterial(before_trees) = BLOCK_MATERIAL_GRASS THEN b + tree.height - 1 ELSE b

\* C14: the chunk count of a column is the chunk index of the greatest
\* height addressed in it, plus one: after the layering, and after the
\* vegetation pass, where a tree taller than the terrain extends the list by
\* the chunks it reaches and no more.
C14_LazyChunks ==
    /\ pc = "trees" => Len(column_chunks) = (MaxHeight(heights) \div SIZE_Y) + 1
    /\ pc = "insert" =>
           /\ Len(before_trees) = (MaxHeight(heights) \div SIZE_Y) + 1
           /\ Len(column_chunks) = (Max(MaxHeight(heights), TreeTop) \div SIZE_Y) + 1
           /\ \A n \in 1..Len(before_trees) :
                  column_chunks[n].position = before_trees[n].position

\* C14 witness: a tree reached above the chunks of the terrain and the list
\* grew by the chunks it reached.
C14_Witness ==
    /\ pc = "insert"
    /\ Len(column_chunks) > Len(before_trees)
    /\ Len(column_chunks) = (TreeTop \div SIZE_Y) + 1
    /\ MaterialAt(column_chunks, tree.x, tree.z, TreeTop) = BLOCK_MATERIAL_TREE_TRUNK

\* The in-chunk coordinates <<x, z>> the loops of populate_trees address for
\* a placed tree t: the trunk, and at each trunk level y the square of
\* half-width radius - leaf_height around it.
TreeCells(t) ==
    { <<t.x, t.z>> } \cup
    UNION { { <<t.x + u, t.z + v>> :
                u \in (LeafHeight(y, t.height, t.radius) - t.radius)..
                      (t.radius - LeafHeight(y, t.height, t.radius)),
                v \in (LeafHeight(y, t.height, t.radius) - t.radius)..
                      (t.radius - LeafHeight(y, t.height, t.radius)) } :
            y \in { l \in 1..(t.height - 1) : LeafHeight(l, t.height, t.radius) >= 0 } }

\* The attempts the distributions of populate_trees allow, of the least height.
TreeAttempts ==
    [x : MAX_TREE_RADIUS..(SIZE_X - MAX_TREE_RADIUS - 1),
     z : MAX_TREE_RADIUS..(SIZE_Z - MAX_TREE_RADIUS - 1),
     height : {MIN_TREE_HEIGHT},
     radius : MIN_TREE_RADIUS..MAX_TREE_RADIUS]

InChunk(c) == c[1] >= 0 /\ c[1] < SIZE_X /\ c[2] >= 0 /\ c[2] < SIZE_Z

\* The attempt populate_trees draws for the chunk column.
ColumnAttempt == TreeAttempt(tree_generator_seed(world_seed_, column_position))

\* C15: the attempt drawn for a chunk column lies within the margins, and
\* every trunk and leaf cell addressed for it, as for any attempt within the
\* margins, has in-chunk coordinates 0 <= x < SIZE_X and 0 <= z < SIZE_Z.
C15_CanopyInChunk ==
    /\ pc = "trees" =>
           /\ [ColumnAttempt EXCEPT !.height = MIN_TREE_HEIGHT] \in TreeAttempts
           /\ \A c \in TreeCells(ColumnAttempt) : InChunk(c)
    /\ pc = "insert" =>
           /\ tree = ColumnAttempt
           /\ \A c \in TreeCells(tree) : InChunk(c)
           /\ \A t \in TreeAttempts : \A c \in TreeCells(t) : InChunk(c)

\* C15 witness: a tree of the greatest radius was placed next to the margin,
\* and its first leaf level reaches the first or the last column of the chunk.
C15_Witness ==
    /\ pc = "insert"
    /\ column_chunks # before_trees
    /\ tree.radius = MAX_TREE_RADIUS
    /\ LET y == heights[tree.x + 1][tree.z + 1] + tree.height - tree.radius - 1
       IN  \/ /\ tree.x = MAX_TREE_RADIUS
              /\ MaterialAt(column_chunks, 0, tree.z, y) = BLOCK_MATERIAL_TREE_LEAF
           \/ /\ tree.x = SIZE_X - MAX_TREE_RADIUS - 1
              /\ MaterialAt(column_chunks, SIZE_X - 1, tree.z, y) = BLOCK_MATERIAL_TREE_LEAF

\* The absolute positions of the corners of the fundamental patch of the
\* region at rp.
FundamentalCorners(rp) ==
    { <<rp[1] + CornerOffsets(fundamental_size)[c][1],
        rp[2] + CornerOffsets(fundamental_size)[c][2]>> : c \in 1..4 }

\* C16: the seed of the tree stream of a chunk column differs from the seed
\* of the stream the fundamental patch samples its corner from, where the
\* column position is the position of a corner.
C16_TreeSaltDistinct ==
    pc = "seeded" /\ column_position \in FundamentalCorners(position)
        => tree_generator # sampled.corner

\* The cells of band k no later pass writes again: from the top of the band
\* before (0 for the first band) to the cell below its own top (to its top
\* for the last band).
OwnFirst(k) == IF k = 1 THEN 0 ELSE tops[k - 1]
OwnLast(k) == IF k = num_layers THEN tops[k] ELSE tops[k] - 1

\* C17: the top of each band is at least the top of the band before plus
\* one (the first at least 1), and after the six passes each band owns at
\* least one cell, all of them holding what its own pass wrote: the material
\* of the band, or air where the pass carved.
C17_NoDegenerateBand ==
    /\ \A k \in 1..Len(tops) : tops[k] >= (IF k = 1 THEN 0 ELSE tops[k - 1]) + 1
    /\ pc = "layered" =>
           \A k \in 1..num_layers :
               /\ OwnFirst(k) <= OwnLast(k)
               /\ \A y \in OwnFirst(k)..OwnLast(k) :
                      MaterialAt(column_chunks, xz[1], xz[2], y) =
                          CellMaterial(layers(total_height)[k][1],
                                       CellDensity(0, y), CellDensity(1, y))

\* C17 witness: a solid column of total_height -1000, every band one cell
\* above the band before, each holding its own material.
C17_Witness ==
    /\ pc = "layered"
    /\ total_height = -1000 * Q
    /\ tops = <<1, 2, 3, 4, 5, 6>>
    /\ \A k \in 1..num_layers :
           MaterialAt(column_chunks, xz[1], xz[2], OwnFirst(k)) = layers(total_height)[k][1]

\* Whether a tree was placed by the attempt.
TreePlaced == RootMaterial(before_trees) = BLOCK_MATERIAL_GRASS

\* C18: after a tree of height h and radius r is placed on a surface block
\* at height b, a cell has become leaf exactly when it was air, is not on
\* the trunk, lies at a level y = height - b with h - r - 1 <= y <= h - 1 and
\* within the square of half-width r - (y - (h - r - 1)) around the trunk:
\* the half-width is r at the first level and 0 at the top level, which has
\* no leaf.
C18_LeafGeometry ==
    pc = "insert" /\ TreePlaced =>
        LET b == heights[tree.x + 1][tree.z + 1]
            h == tree.height
            r == tree.radius
        IN  \A c \in ColumnCells : \A a \in 0..(Len(column_chunks) * SIZE_Y - 1) :
                LET y == a - b
                    w == r - (y - (h - r - 1))
                IN  (/\ MaterialAt(column_chunks, c[1], c[2], a) = BLOCK_MATERIAL_TREE_LEAF
                     /\ MaterialAt(before_trees, c[1], c[2], a) # BLOCK_MATERIAL_TREE_LEAF)
                    <=>
                    (/\ MaterialAt(before_trees, c[1], c[2], a) = BLOCK_MATERIAL_AIR
                     /\ c # <<tree.x, tree.z>>
                     /\ h - r - 1 <= y /\ y <= h - 1
                     /\ Abs(c[1] - tree.x) <= w
                     /\ Abs(c[2] - tree.z) <= w)

\* C18 witness: a placed tree has a leaf at the corner of the square of its
\* first leaf level, a leaf next to the trunk one level below the top, and
\* air next to the trunk at the top level.
C18_Witness ==
    /\ pc = "insert"
    /\ TreePlaced
    /\ LET b == heights[tree.x + 1][tree.z + 1]
           h == tree.height
           r == tree.radius
       IN  /\ MaterialAt(column_chunks, tree.x + r, tree.z + r, b + h - r - 1)
                = BLOCK_MATERIAL_TREE_LEAF
           /\ MaterialAt(column_chunks, tree.x + r, tree.z + r, b + h - r - 2)
                = BLOCK_MATERIAL_AIR
           /\ MaterialAt(column_chunks, tree.x + 1, tree.z, b + h - 2) = BLOCK_MATERIAL_TREE_LEAF
           /\ MaterialAt(column_chunks, tree.x + 1, tree.z, b + h - 1) = BLOCK_MATERIAL_AIR
           /\ MaterialAt(column_chunks, tree.x, tree.z, b + h - 1) = BLOCK_MATERIAL_TREE_TRUNK

\* C19: after a tree of height h is placed on a surface block at height b,
\* the cells that hold trunk material are exactly the cells at heights b + 1
\* to b + h - 1 of the column of the tree, and the surface block is grass
\* as before.
C19_TrunkCells ==
    pc = "insert" /\ TreePlaced =>
        LET b == heights[tree.x + 1][tree.z + 1]
        IN  /\ MaterialAt(column_chunks, tree.x, tree.z, b) = BLOCK_MATERIAL_GRASS
            /\ \A c \in ColumnCells : \A a \in 0..(Len(column_chunks) * SIZE_Y - 1) :
                   MaterialAt(column_chunks, c[1], c[2], a) = BLOCK_MATERIAL_TREE_TRUNK
                   <=> (c = <<tree.x, tree.z>> /\ b + 1 <= a /\ a <= b + tree.height - 1)

\* C19 witness: a tree of the least height stands on grass: trunk on the
\* seven cells above the surface block, air above the trunk.
C19_Witness ==
    /\ pc = "insert"
    /\ TreePlaced
    /\ tree.height = MIN_TREE_HEIGHT
    /\ LET b == heights[tree.x + 1][tree.z + 1]
       IN  /\ MaterialAt(column_chunks, tree.x, tree.z, b) = BLOCK_MATERIAL_GRASS
           /\ \A y \in 1..(MIN_TREE_HEIGHT - 1) :
                  MaterialAt(column_chunks, tree.x, tree.z, b + y) = BLOCK_MATERIAL_TREE_TRUNK
           /\ MaterialAt(column_chunks, tree.x, tree.z, b + MIN_TREE_HEIGHT) = BLOCK_MATERIAL_AIR

\* The octave cells of a region, and the cell that contains a relative position.
OctaveCells == {0, 1} \X {0, 1}

ContainingCell(rel) ==
    { c \in OctaveCells :
        \A k \in 1..2 : /\ c[k] * BICUBIC_OCTAVE_EDGE <= rel[k]
                        /\ rel[k] < (c[k] + 1) * BICUBIC_OCTAVE_EDGE }

\* The octave patch RegionFeatures anchors at the cell c of the region at rp.
AnchoredPatch(rp, c) ==
    BicubicPatch(octave_seed(world_seed_),
                 <<rp[1] + c[1] * BICUBIC_OCTAVE_EDGE, rp[2] + c[2] * BICUBIC_OCTAVE_EDGE>>,
                 <<BICUBIC_OCTAVE_EDGE, BICUBIC_OCTAVE_EDGE>>, octave_features)

\* C20: the index of the octave patch of a column is the one cell of
\* {0,1} x {0,1} that contains the column, the patch taken for it is the
\* patch anchored at region position + index * BICUBIC_OCTAVE_EDGE, the
\* offset given to it is the offset of the column within that cell, and
\* total_height is computed from that patch at that offset.
C20_OctaveCell ==
    LET rel == relative_position(position, column_position, xz[1], xz[2])
        idx == octave_index(rel)
        seeded == region_features =
                      RegionFeatures(world_seed_, position, fundamental_features, octave_features)
    IN  /\ ContainingCell(rel) = { idx }
        /\ \A k \in 1..2 : octave_position(rel)[k] = rel[k] - idx[k] * BICUBIC_OCTAVE_EDGE
        /\ seeded => \A c \in ContainingCell(rel) :
                        get_octave_patch(region_features, idx) = AnchoredPatch(position, c)
        /\ seeded /\ pc # "begin" =>
               \A c \in ContainingCell(rel) :
                   total_height =
                       BASE_HEIGHT * Q
                       + interpolate(region_features.fundamental_patch_, rel, REGION_SIZE)
                       - Abs(interpolate(AnchoredPatch(position, c),
                                         <<rel[1] - c[1] * BICUBIC_OCTAVE_EDGE,
                                           rel[2] - c[2] * BICUBIC_OCTAVE_EDGE>>,
                                         BICUBIC_OCTAVE_EDGE))

\* C20 witness: a column of the cell <<1, 0>> of a seeded region at a
\* negative position was layered; the patches of the cells <<1, 0>> and
\* <<0, 1>> differ.
C20_Witness ==
    /\ pc = "layered"
    /\ position[1] < 0
    /\ region_features = RegionFeatures(world_seed_, position, fundamental_features, octave_features)
    /\ octave_index(relative_position(position, column_position, xz[1], xz[2])) = <<1, 0>>
    /\ octave_position(relative_position(position, column_position, xz[1], xz[2]))[1] > 0
    /\ AnchoredPatch(position, <<1, 0>>) # AnchoredPatch(position, <<0, 1>>)

\* The column position of the n-th chunk of a list.
ColumnOf(cs, n) == <<cs[n].position[1], cs[n].position[3]>>

\* Whether the chunks of a list are laid out column by column: the chunks of
\* one column are next to each other, in ascending height from 0 in steps of
\* SIZE_Y, and no two chunks have the same origin.
ColumnsInOrder(cs) ==
    /\ \A n \in 1..Len(cs) :
           cs[n].position[2] =
               IF n > 1 /\ ColumnOf(cs, n - 1) = ColumnOf(cs, n)
               THEN cs[n - 1].position[2] + SIZE_Y
               ELSE 0
    /\ \A m \in 1..Len(cs) : \A n \in (m + 1)..Len(cs) :
           /\ cs[m].position # cs[n].position
           /\ ColumnOf(cs, m) = ColumnOf(cs, n)
                  => \A l \in m..n : ColumnOf(cs, l) = ColumnOf(cs, m)

\* C21: in the list generate_region builds and in every list it has
\* returned, the k-th chunk of a column has the origin (column x,
\* k * SIZE_Y, column z), the chunks of a column are contiguous in ascending
\* height, and the origins are pairwise distinct.
C21_ChunkOrigins ==
    /\ ColumnsInOrder(chunks)
    /\ ColumnsInOrder(column_chunks)
    /\ \A k \in DOMAIN returned : ColumnsInOrder(returned[k])

\* C21 witness: a region at a negative position is about to be returned, its
\* columns of several chunks each; the last chunk of the list is the highest
\* chunk of the last column.
C21_Witness ==
    /\ pc = "return"
    /\ position[1] < 0
    /\ Len(chunks) > 2 * Cardinality(ColumnsOf(chunks))
    /\ chunks[Len(chunks)].position =
           <<column_position[1], (Len(column_chunks) - 1) * SIZE_Y, column_position[2]>>
    /\ column_position = ColumnPosition(position, <<CHUNKS_PER_REGION_EDGE[1] - 1,
                                                    CHUNKS_PER_REGION_EDGE[2] - 1>>)

\* C22: every chunk of a column was appended by an access whose chunk index
\* was the length of the list at that moment (its origin keeps the height of
\* that access), and every height the layering and the vegetation pass have
\* addressed lies in the list: no access is past the chunk it may append.
C22_AccessWithinList ==
    /\ \A k \in 1..Len(column_chunks) : column_chunks[k].position[2] \div SIZE_Y = k - 1
    /\ pc = "trees" =>
           \A c \in ColumnCells : heights[c[1] + 1][c[2] + 1] \div SIZE_Y < Len(column_chunks)
    /\ pc = "insert" =>
           /\ heights[tree.x + 1][tree.z + 1] \div SIZE_Y < Len(before_trees)
           /\ TreeTop \div SIZE_Y < Len(column_chunks)

\* C22 witness: a tree was placed whose trunk crosses into a chunk the
\* terrain had not allocated, and a leaf was written in that chunk.
C22_Witness ==
    /\ pc = "insert"
    /\ TreePlaced
    /\ Len(column_chunks) = Len(before_trees) + 1
    /\ column_chunks[Len(column_chunks)].position[2] = Len(before_trees) * SIZE_Y
    /\ MaterialAt(column_chunks, tree.x + 1, tree.z, Len(before_trees) * SIZE_Y)
         = BLOCK_MATERIAL_TREE_LEAF

\* The four parts of the GUI focus, as <<focused, unstashed, cursor shown, grab off>>.
FocusState(a) ==
    <<a.gui_focused_, ~a.gui_stashed, a.cursor = "SDL_ENABLE", a.grab = "SDL_GRAB_OFF">>

\* C28: after construction and after any sequence of events, gui_focused_ is
\* true exactly when the GUI is unstashed, the cursor is shown and the input
\* grab is off, and false exactly when the GUI is stashed, the cursor hidden
\* and the grab on; a toggle_gui_focus from there flips all four, and a
\* second one restores them.
C28_FocusConsistent ==
    /\ FocusState(Application) \in {<<TRUE, TRUE, TRUE, TRUE>>, <<FALSE, FALSE, FALSE, FALSE>>}
    /\ \A n \in 1..4 :
          FocusState(toggle_gui_focus(Application))[n] = ~FocusState(Application)[n]
    /\ FocusState(toggle_gui_focus(toggle_gui_focus(Application))) = FocusState(Application)

C28_Witness ==
    /\ gui_focused_
    /\ event = <<"SDL_KEYDOWN", "SDLK_ESCAPE">>
    /\ calls = << <<"this", "toggle_gui_focus">> >>
    /\ FocusState(Application) = <<TRUE, TRUE, TRUE, TRUE>>

\* C29: while the GUI is focused, a keyboard or mouse event other than the
\* Escape key-down is handed to the GUI alone and no request of the player
\* changes; the Escape key-down toggles the focus and reaches neither the
\* GUI nor the player, whatever the focus; a resize event reshapes the
\* window to the size of the event and then reaches the GUI, whatever the
\* focus.
C29_FocusedEventsToGui ==
    [][ /\ (gui_focused_ /\ event' \in (KeyboardEvents \cup MouseEvents) \ {EscapeKeyDown})
            => /\ calls' = << <<"gui_", "handle_event">> >>
               /\ player_' = player_
               /\ gui_focused_'
        /\ event' = EscapeKeyDown
            => /\ calls' = << <<"this", "toggle_gui_focus">> >>
               /\ gui_focused_' = ~gui_focused_
               /\ player_' = player_
        /\ event' \in ResizeEvents
            => /\ calls' = << <<"window_", "reshape_window">>, <<"gui_", "handle_event">> >>
               /\ window_' = event'[2]
               /\ player_' = player_
      ]_vars

\* A key-down of W reached the focused GUI while the player was strafing.
C29_Witness ==
    /\ gui_focused_
    /\ event = <<"SDL_KEYDOWN", "SDLK_w">>
    /\ calls = << <<"gui_", "handle_event">> >>
    /\ player_["strafe_left"]
    /\ ~player_["move_forward"]

\* C30: after handle_event has handled the key-up of a movement key, the
\* request of that key is false, whatever the GUI focus.
C30_KeyUpClearsRequest ==
    (event[1] = "SDL_KEYUP" /\ KeyRequest[event[2]] # "") => ~player_[KeyRequest[event[2]]]

\* C25: render_chunks draws the translucent parts of the visible chunks from
\* the farthest to the nearest: the squared distance between the camera and
\* the centroid of the chunk never increases from one to the next.
C25_TranslucentFarthestFirst ==
    main_pc = "rendered" =>
        \A n \in 1..(Len(drawn.translucent) - 1) :
            drawn.translucent[n].distance_squared >= drawn.translucent[n + 1].distance_squared

\* The faces a draw call draws, in order, numbered from 1: a face is drawn
\* with six indices, the first of them its first vertex.
FacesDrawn(draw) ==
    [k \in 1..(Len(draw.indices) \div 6) |->
        draw.indices[6 * (k - 1) + 1] \div VERTICES_PER_FACE + 1]

Occurrences(seq, x) == Cardinality({k \in 1..Len(seq) : seq[k] = x})

\* C26: SortableChunkVertexBuffer::render draws every translucent face of
\* the chunk exactly once, each draw call covers a run of consecutive faces
\* of one material, and the call is configured with that material.
C26_DrawCallsByMaterial ==
    main_pc = "rendered" =>
        \A t \in 1..Len(drawn.translucent) :
            LET vbo == RendererAt(chunk_renderers_, drawn.translucent[t].address).translucent_vbo_
                draws == drawn.translucent[t].draws
            IN  /\ \A f \in 1..Len(vbo.materials_) :
                      /\ \E d \in 1..Len(draws) : Occurrences(FacesDrawn(draws[d]), f) = 1
                      /\ \A d, e \in 1..Len(draws) :
                            (/\ Occurrences(FacesDrawn(draws[d]), f) > 0
                             /\ Occurrences(FacesDrawn(draws[e]), f) > 0) => d = e
                /\ \A d \in 1..Len(draws) :
                      /\ \E lo, hi \in 1..Len(vbo.materials_) : Range(FacesDrawn(draws[d])) = lo..hi
                      /\ \A f \in Range(FacesDrawn(draws[d])) :
                            vbo.materials_[f] = draws[d].material

\* C23: a World::update_chunks task is queued only by schedule_chunk_update,
\* only when the chunk lock was free for its try_lock and the chunk updater
\* had no task pending or executing; so at most one task is pending or
\* executing at any time.
C23_OneChunkUpdate ==
    /\ [](chunk_updater_.pending + (IF chunk_updater_.active THEN 1 ELSE 0) <= 1)
    /\ [][chunk_updater_'.pending > chunk_updater_.pending
            => /\ main_pc = "schedule"
               /\ chunk_lock = "free"
               /\ chunk_updater_.pending = 0
               /\ ~chunk_updater_.active]_vars

\* A task was queued while the worker looked on, and is now executing.
C23_Witness ==
    /\ chunk_updater_ = [pending |-> 0, active |-> TRUE]
    /\ chunk_lock = "updater"
    /\ main_pc = "schedule"

\* C24: no batch of updated chunks is lost.  When do_one_step and
\* schedule_chunk_update are reached, handle_chunk_changes has left
\* updated_chunks_ empty, so an assignment overwrites nothing; and the only
\* step that takes chunks out of updated_chunks_ is the clear at the end of
\* handle_chunk_changes, made under the chunk lock after each chunk of the
\* list was passed to note_chunk_changes exactly once under that lock.
C24_NoBatchLost ==
    /\ [](main_pc \in {"step", "schedule"} => updated_chunks_ = {})
    /\ [][(updated_chunks_ # {} /\ updated_chunks_' # updated_chunks_)
            => /\ main_pc = "noting"
               /\ chunk_lock = "main"
               /\ updated_chunks_' = {}
               /\ Len(noted) = Cardinality(updated_chunks_)
               /\ \A u \in updated_chunks_ :
                     /\ Cardinality(Noted(u)) = 1
                     /\ \A n \in Noted(u) : noted[n].lock = "main"]_vars

\* Both chunks of a batch are noted while a chunk update task is executing.
C24_Witness ==
    /\ main_pc = "noting"
    /\ updated_chunks_ = Range(LoopPositions)
    /\ Len(noted) = 2
    /\ chunk_lock = "main"
    /\ chunk_updater_.active

\* C27: the renderer holds a ChunkRenderer for a position exactly when the
\* last note_chunk_changes for that position was given a chunk with an
\* external face, and never for a position that was not noted; the
\* ChunkRenderer it holds was built from the faces of that last note.
C27_RendererIffFaces ==
    /\ DOMAIN chunk_renderers_ \subseteq DOMAIN last_note
    /\ \A p \in DOMAIN last_note :
          /\ p \in DOMAIN chunk_renderers_ <=> last_note[p] # <<>>
          /\ p \in DOMAIN chunk_renderers_ =>
                chunk_renderers_[p] = rebuild(chunk_renderers_[p], last_note[p])

\* One note removed the renderer of a chunk left without faces, the next
\* rebuilt the renderer of the other chunk.
C27_Witness ==
    /\ main_pc = "noting"
    /\ Len(noted) = 2
    /\ noted[1].found /\ noted[1].position \notin DOMAIN chunk_renderers_
    /\ noted[2].found /\ noted[2].position \in DOMAIN chunk_renderers_
    /\ last_note[noted[1].position] = <<>>
    /\ Len(last_note[noted[2].position]) = 2

====
